---- MODULE Spec2Model ----
(***************************************************************************)
(* Model of the OAuth authorization provider of the Whoop MCP server       *)
(* (src/src/whoop_oauth_provider.py): the in-memory maps of a provider     *)
(* instance, the JSON files that persist them, and the provider's          *)
(* operations, each one action.                                            *)
(*                                                                         *)
(* Conventions.                                                            *)
(*  - An Optional value is a set with at most one element: None is {} and  *)
(*    Some(x) is {x}.                                                      *)
(*  - A dict is a function whose DOMAIN is its key set.                    *)
(*  - time.time() is `now`, counted in ticks of 1/Res second, so that      *)
(*    int(time.time()) is a real truncation.                               *)
(*  - secrets.token_urlsafe / token_hex return a value never returned      *)
(*    before: the n-th draw made for a purpose returns the purpose's name  *)
(*    followed by n.                                                       *)
(***************************************************************************)
EXTENDS Integers, Sequences, FiniteSets, TLC

\* ------------------------------------------------------------------ bounds
Res == 2          \* ticks of `now` per second
MaxTicks == 1     \* how many times the clock advances in a run
MaxClients == 1   \* how many client ids are drawn in a run
MaxCodes == 1     \* how many authorization codes are drawn in a run
MaxTokens == 2    \* how many access tokens are drawn in a run
MaxSessions == 2  \* how many session ids are drawn in a run

\* ------------------------------------------------------- program constants
CODE_TTL == 600        \* authorize: expires_at = time.time() + 600
TOKEN_TTL == 3600      \* exchange_*: expires_at = int(time.time()) + 3600
REFRESH_EXTRA == 86400 \* exchange_authorization_code: expires_at + 86400

\* -------------------------------------------------------------- Optional
None == {}
Some(x) == {x}
The(opt) == CHOOSE x \in opt : TRUE
\* Python truthiness of an Optional list and of an Optional string: None and
\* the empty value are falsy.
TruthyList(opt) == opt # None /\ Len(The(opt)) > 0
TruthyStr(opt) == opt # None /\ The(opt) # ""

\* ------------------------------------------------------------------ dicts
EmptyDict == [k \in {} |-> {}]
\* d[k] = v as it would be if the assignment replaced the dict.
DictSetAlone(d, k, v) == [x \in {k} |-> v]
DictSet(d, k, v) == [x \in DOMAIN d \cup {k} |-> IF x = k THEN v ELSE d[x]]
\* del d[k] as it would be if it removed nothing.
DictDelKept(d, k) == d
DictDel(d, k) == [x \in DOMAIN d \ {k} |-> d[x]]
DictGet(d, k) == IF k \in DOMAIN d THEN Some(d[k]) ELSE None

\* --------------------------------------------------------------- instances
\* A provider instance is one process that imported the module (line 390).
Inst == {"A", "B"}

VARIABLES
    now,              \* time.time(), in ticks of 1/Res second
    ticks,            \* how many times the clock has advanced
    rng,              \* how many secrets have been drawn, for each purpose
    _clients,         \* [Inst -> dict client_id -> OAuthClientInformationFull]
    _tokens,          \* [Inst -> dict token -> AccessToken]
    _auth_codes,      \* [Inst -> dict code -> AuthorizationCode]
    _whoop_tokens,    \* [Inst -> dict session_id -> vendor token data]
    CLIENTS_FILE,     \* Optional content of storage/oauth_clients.json
    TOKENS_FILE,      \* Optional content of storage/oauth_tokens.json
    AUTH_CODES_FILE,  \* Optional content of storage/oauth_auth_codes.json
    tokens_json,      \* Optional content of config/tokens.json (vendor tokens)
    held,             \* [Inst -> set of AuthorizationCode objects that
                      \*  load_authorization_code returned to callers]
    authorized,       \* log of "Generated auth code" (line 226), with the
                      \* scopes the request asked for
    issued,           \* log of "Issued access token" (lines 296, 338), with
                      \* the token response
    revoked,          \* log of "Revoked access token" (line 367)
    ret               \* the last call: operation, arguments, outcome

\* The storage directory of the provider.
VARIABLES
    disk              \* what happens to a write in the storage directory:
                      \* "ok", "open_fails" or "write_fails"

\* The SSE server's OAuth client (whoop_mcp_sse_server.py).
VARIABLES
    seen              \* the response bodies the OAuth client and its user's
                      \* browser have received from the server

\* The socket server (simple_mcp_server.py), one connection.
VARIABLES
    connected,        \* handle_client is in its loop on an open socket
    buffer,           \* handle_client's `buffer`
    sent,             \* what sendall has sent on the connection, in order
    reads             \* how many times recv has returned

\* The tool dispatcher (whoop_server.py).
VARIABLES
    whoop_client,     \* the global `whoop_client`: None or the upstream client
    upstream_calls,   \* how many calls the upstream client has received
    tool_ret          \* the last tool call and the value it returned

\* The authentication script (scripts/authenticate_whoop.py).
VARIABLES
    pc,               \* where the script is, and what its run has done
    umask,            \* the umask of the process that runs the script
    TOKEN_FILE_mode   \* Optional permission bits of config/tokens.json

flowVars == <<seen>>
socketVars == <<connected, buffer, sent, reads>>
toolVars == <<whoop_client, upstream_calls, tool_ret>>
scriptVars == <<pc, umask, TOKEN_FILE_mode>>
\* The state of the programs other than the provider.
otherPrograms == <<flowVars, socketVars, toolVars, scriptVars>>

vars == <<now, ticks, rng, _clients, _tokens, _auth_codes, _whoop_tokens,
          CLIENTS_FILE, TOKENS_FILE, AUTH_CODES_FILE, tokens_json, held,
          authorized, issued, revoked, ret, disk, otherPrograms>>
\* The state of the provider and of its files.
providerVars == <<now, ticks, rng, _clients, _tokens, _auth_codes,
                  _whoop_tokens, CLIENTS_FILE, TOKENS_FILE, AUTH_CODES_FILE,
                  tokens_json, held, authorized, issued, revoked, ret, disk>>

\* ---------------------------------------------------------- time and secrets
\* int(time.time())
IntTime(t) == t \div Res
\* `t` (a float, in ticks) > `secs` (an int number of seconds)
LaterThanSecs(t, secs) == t > secs * Res
\* What the provider draws secrets for, and the next secret of each purpose:
\* secrets.token_urlsafe / secrets.token_hex never return a value twice.
Purposes == {"client_id", "client_secret", "code", "state", "session",
             "access", "refresh"}
token_urlsafe(purpose) == purpose \o "-" \o ToString(rng[purpose] + 1)
token_hex(purpose) == purpose \o "-" \o ToString(rng[purpose] + 1)
\* the random source after one draw for each of `purposes`
Drawn(purposes) == [p \in Purposes |-> IF p \in purposes THEN rng[p] + 1 ELSE rng[p]]
DEFAULT_SESSION == "default_session"

\* ------------------------------------------------------------- persistence
\* pydantic AnyUrl and its str()
AnyUrl(s) == [url |-> s]
UrlStr(u) == u.url

\* _save_clients, lines 92-101: model_dump with every AnyUrl turned into str
ClientDump(c) ==
    [c EXCEPT !.redirect_uris =
        Some([n \in 1..Len(The(c.redirect_uris)) |-> UrlStr(The(c.redirect_uris)[n])])]
\* _load_clients, line 83: OAuthClientInformationFull(**client_data)
ClientLoad(d) ==
    [d EXCEPT !.redirect_uris =
        Some([n \in 1..Len(The(d.redirect_uris)) |-> AnyUrl(The(d.redirect_uris)[n])])]
\* _save_auth_codes, lines 148-151
AuthCodeDump(c) == [c EXCEPT !.redirect_uri = UrlStr(c.redirect_uri)]
\* _load_auth_codes, lines 136-138
AuthCodeLoad(d) == [d EXCEPT !.redirect_uri = AnyUrl(d.redirect_uri)]
\* _save_tokens, line 122 and _load_tokens, line 114: every field of an
\* AccessToken is a JSON value already
AccessTokenDump(t) == [token |-> t.token, client_id |-> t.client_id,
                       scopes |-> t.scopes, expires_at |-> t.expires_at,
                       resource |-> t.resource]
AccessTokenLoad(d) == [type |-> "AccessToken", token |-> d.token,
                       client_id |-> d.client_id, scopes |-> d.scopes,
                       expires_at |-> d.expires_at, resource |-> d.resource]

\* _save_tokens as it would be if it read the file and merged the map into it.
_save_tokens_merged(m) ==
    LET old == IF TOKENS_FILE = None THEN EmptyDict ELSE The(TOKENS_FILE)
    IN Some([k \in DOMAIN old \cup DOMAIN m |->
               IF k \in DOMAIN m THEN AccessTokenDump(m[k]) ELSE old[k]])
\* A store file that open(FILE, "w") has emptied and json.dump has not
\* finished writing: it exists and is not a JSON document.
Truncated == Some([k \in {"<truncated>"} |-> [truncated |-> TRUE]])

\* The content of the file after the try block of _save_*: open(FILE, "w")
\* and json.dump of the map. When open raises the file is as it was; when
\* json.dump raises, open has already emptied the file. Either exception is
\* caught and logged.
_save_clients(m) ==
    CASE disk = "ok" -> Some([k \in DOMAIN m |-> ClientDump(m[k])])
      [] disk = "open_fails" -> CLIENTS_FILE
      [] disk = "write_fails" -> Truncated
_save_tokens(m) ==
    CASE disk = "ok" -> Some([k \in DOMAIN m |-> AccessTokenDump(m[k])])
      [] disk = "open_fails" -> TOKENS_FILE
      [] disk = "write_fails" -> Truncated
_save_auth_codes(m) ==
    CASE disk = "ok" -> Some([k \in DOMAIN m |-> AuthCodeDump(m[k])])
      [] disk = "open_fails" -> AUTH_CODES_FILE
      [] disk = "write_fails" -> Truncated

\* The map built from the file by __init__: empty when the file does not
\* exist, and when json.load raises (the exception is caught and logged).
_load_clients(file) ==
    IF file = None \/ file = Truncated THEN EmptyDict
    ELSE [k \in DOMAIN The(file) |-> ClientLoad(The(file)[k])]
_load_tokens(file) ==
    IF file = None \/ file = Truncated THEN EmptyDict
    ELSE [k \in DOMAIN The(file) |-> AccessTokenLoad(The(file)[k])]
_load_auth_codes(file) ==
    IF file = None \/ file = Truncated THEN EmptyDict
    ELSE [k \in DOMAIN The(file) |-> AuthCodeLoad(The(file)[k])]
\* Lines 158-171: a default session only when the vendor file exists and has a
\* non-empty access_token.
_load_whoop_tokens(file) ==
    IF file # None /\ file # Truncated /\ The(file).access_token # ""
    THEN [k \in {DEFAULT_SESSION} |-> The(file)]
    ELSE EmptyDict

\* What config/tokens.json holds when a provider starts: no access token yet,
\* or the vendor's token pair.
VendorFiles ==
    { Some([access_token |-> "", refresh_token |-> ""]),
      Some([access_token |-> "whoop-access", refresh_token |-> "whoop-refresh"]) }

NoCall == [op |-> "none"]

\* The authentication script before it is run: where it is, the token data
\* it holds, the callback URL and the answer its user gave, whether it has
\* sent a code to the vendor's token endpoint, and its exit status.
NotRun == [at |-> "idle", token_data |-> None, url |-> None, answer |-> None,
           exchanged |-> FALSE, status |-> None]

\* The other programs before anything has happened in them.
OtherProgramsInit ==
    /\ seen = {}
    /\ connected = FALSE
    /\ buffer = <<>>
    /\ sent = <<>>
    /\ reads = 0
    /\ whoop_client = None
    /\ upstream_calls = 0
    /\ tool_ret = NoCall
    /\ pc = NotRun
    /\ umask = 18
    /\ TOKEN_FILE_mode = Some(384)

\* ------------------------------------------------------------------- Init
\* Both storage files are absent before the first provider ever runs; every
\* instance has run __init__ on that empty storage directory.
Init ==
    /\ now = 0
    /\ ticks = 0
    /\ rng = [p \in Purposes |-> 0]
    /\ tokens_json \in VendorFiles
    /\ CLIENTS_FILE = None
    /\ TOKENS_FILE = None
    /\ AUTH_CODES_FILE = None
    /\ _clients = [i \in Inst |-> _load_clients(CLIENTS_FILE)]
    /\ _tokens = [i \in Inst |-> _load_tokens(TOKENS_FILE)]
    /\ _auth_codes = [i \in Inst |-> _load_auth_codes(AUTH_CODES_FILE)]
    /\ _whoop_tokens = [i \in Inst |-> _load_whoop_tokens(tokens_json)]
    /\ held = [i \in Inst |-> {}]
    /\ authorized = {}
    /\ issued = {}
    /\ revoked = {}
    /\ ret = NoCall
    /\ disk = "ok"
    /\ OtherProgramsInit

\* --------------------------------------------------------------- the clock
\* The instants at which the answer of a comparison with time.time() changes:
\* the expiry of every authorization code and access token in a map or in a
\* caller's hands, and the first instant after it.
Expiries ==
    UNION { { _auth_codes[i][c].expires_at : c \in DOMAIN _auth_codes[i] }
            \cup { c.expires_at : c \in held[i] }
            \cup { The(_tokens[i][t].expires_at) * Res : t \in DOMAIN _tokens[i] }
            : i \in Inst }
TickTargets == { t \in Expiries \cup { e + 1 : e \in Expiries } : t > now }
Tick(t) ==
    /\ ticks < MaxTicks
    /\ now' = t
    /\ ticks' = ticks + 1
    /\ UNCHANGED <<rng, _clients, _tokens, _auth_codes, _whoop_tokens,
                   CLIENTS_FILE, TOKENS_FILE, AUTH_CODES_FILE, tokens_json,
                   held, authorized, issued, revoked, ret,
                      disk, otherPrograms>>

\* ------------------------------------------------------------- __init__
\* The process of instance i restarts: the maps are rebuilt from the files,
\* the sessions from the vendor file; its requests in flight are gone.
Restart(i) ==
    /\ _clients' = [_clients EXCEPT ![i] = _load_clients(CLIENTS_FILE)]
    /\ _tokens' = [_tokens EXCEPT ![i] = _load_tokens(TOKENS_FILE)]
    /\ _auth_codes' = [_auth_codes EXCEPT ![i] = _load_auth_codes(AUTH_CODES_FILE)]
    /\ _whoop_tokens' = [_whoop_tokens EXCEPT ![i] = _load_whoop_tokens(tokens_json)]
    /\ held' = [held EXCEPT ![i] = {}]
    /\ ret' = [op |-> "__init__"]
    /\ UNCHANGED <<now, ticks, rng, CLIENTS_FILE, TOKENS_FILE, AUTH_CODES_FILE,
                   tokens_json, authorized, issued, revoked,
                      disk, otherPrograms>>

\* --------------------------------------------------------- register_client
\* The client metadata a registration request can carry.
RedirectUriInputs ==
    { None, Some(<<>>),
      Some(<<AnyUrl("https://app.example/cb"), AnyUrl("http://localhost/cb")>>) }
ClientInfoInputs ==
    { [client_id |-> None, client_secret |-> None, client_id_issued_at |-> None,
       redirect_uris |-> r] : r \in RedirectUriInputs }

\* line 180, negated: `client_info.redirect_uris` is truthy
HasRedirectUriIsNotNone(client_info) == client_info.redirect_uris # None
HasRedirectUri(client_info) == TruthyList(client_info.redirect_uris)

register_client(i, client_info) ==
    IF ~HasRedirectUri(client_info)
    THEN /\ ret' = [op |-> "register_client", raised |-> Some("invalid_redirect_uri"),
                    client_info |-> client_info]
         /\ UNCHANGED <<now, ticks, rng, _clients, _tokens, _auth_codes,
                        _whoop_tokens, CLIENTS_FILE, TOKENS_FILE,
                        AUTH_CODES_FILE, tokens_json, held, authorized, issued, revoked,
                      disk, otherPrograms>>
    ELSE LET registered ==
                 [client_info EXCEPT
                     !.client_id = Some(token_urlsafe("client_id")),
                     !.client_secret = Some(token_urlsafe("client_secret")),
                     !.client_id_issued_at = Some(IntTime(now))]
         IN /\ rng["client_id"] < MaxClients
            /\ rng' = Drawn({"client_id", "client_secret"})
            /\ _clients' = [_clients EXCEPT ![i] =
                               DictSet(@, The(registered.client_id), registered)]
            /\ CLIENTS_FILE' = _save_clients(_clients'[i])
            /\ ret' = [op |-> "register_client",
                       raised |-> None, client_info |-> registered]
            /\ UNCHANGED <<now, ticks, _tokens, _auth_codes, _whoop_tokens,
                           TOKENS_FILE, AUTH_CODES_FILE, tokens_json, held,
                           authorized, issued, revoked,
                      disk, otherPrograms>>

\* get_client, lines 173-175: the registered clients, which are the `client`
\* argument of every other operation.
get_client(i, client_id) == DictGet(_clients[i], client_id)
Clients(i) == { _clients[i][cid] : cid \in DOMAIN _clients[i] }

\* --------------------------------------------------------------- authorize
\* Environment of the module, lines 35-37.
WHOOP_CLIENT_ID == "env:WHOOP_CLIENT_ID"
WHOOP_REDIRECT_URI == "env:WHOOP_REDIRECT_URI"

\* The AuthorizationParams of a request of `client`: scopes and state, each
\* absent, empty or given.
ScopeStateInputs ==
    { <<None, None>>, <<Some(<<>>), Some("")>>,
      <<Some(<<"read:recovery", "read:workout">>), Some("client-state")>> }
ParamsInputs(client) ==
    { [scopes |-> ss[1], state |-> ss[2], code_challenge |-> "challenge",
       redirect_uri |-> The(client.redirect_uris)[n],
       redirect_uri_provided_explicitly |-> TRUE, resource |-> None]
      : ss \in ScopeStateInputs,
        n \in {1} \cap DOMAIN The(client.redirect_uris) }

\* `x or []`
OrEmptyList(opt) == IF TruthyList(opt) THEN The(opt) ELSE <<>>

authorize(i, client, params) ==
    LET auth_code == token_urlsafe("code")
        authorization_code ==
            [code |-> auth_code,
             scopes |-> OrEmptyList(params.scopes),
             expires_at |-> now + CODE_TTL * Res,
             client_id |-> The(client.client_id),
             code_challenge |-> params.code_challenge,
             redirect_uri |-> params.redirect_uri,
             redirect_uri_provided_explicitly |->
                 params.redirect_uri_provided_explicitly,
             resource |-> params.resource]
        drawsState == ~TruthyStr(params.state)
        draws == IF drawsState THEN {"code", "state"} ELSE {"code"}
        whoop_params ==
            [response_type |-> "code",
             client_id |-> WHOOP_CLIENT_ID,
             redirect_uri |-> WHOOP_REDIRECT_URI,
             scope |-> "read:recovery read:workout read:profile",
             state |-> IF drawsState THEN token_urlsafe("state")
                       ELSE The(params.state)]
    IN /\ rng["code"] < MaxCodes
       /\ rng' = Drawn(draws)
       /\ _auth_codes' = [_auth_codes EXCEPT ![i] =
                             DictSet(@, auth_code, authorization_code)]
       /\ AUTH_CODES_FILE' = _save_auth_codes(_auth_codes'[i])
       /\ ret' = [op |-> "authorize",
                  result |-> [endpoint |->
                                 "https://api.prod.whoop.com/oauth/oauth2/auth",
                              query |-> whoop_params]]
       /\ authorized' = authorized \cup
                          { [code |-> auth_code, scopes |-> params.scopes,
                             client_id |-> The(client.client_id)] }
       /\ UNCHANGED <<now, ticks, _clients, _tokens, _whoop_tokens,
                      CLIENTS_FILE, TOKENS_FILE, tokens_json, held, issued, revoked,
                      disk, otherPrograms>>

\* -------------------------------------------------- load_authorization_code
\* The code strings a token request can carry: every code some response or log
\* has shown, and one that was never issued.
CodeStrings(i) ==
    DOMAIN _auth_codes[i] \cup { c.code : c \in held[i] }
    \cup { The(g.code).code : g \in { h \in issued : h.code # None } }
    \cup { "never-issued" }

\* line 240: `time.time() > code.expires_at`
CodeExpiredAtOrAfter(code, t) == t >= code.expires_at
CodeExpired(code, t) == t > code.expires_at

load_authorization_code(i, client, authorization_code) ==
    LET code == DictGet(_auth_codes[i], authorization_code)
        expired == code # None /\ CodeExpired(The(code), now)
        result == IF code = None \/ expired THEN None ELSE code
    IN /\ IF expired
          THEN /\ _auth_codes' = [_auth_codes EXCEPT ![i] =
                                     DictDel(@, authorization_code)]
               /\ AUTH_CODES_FILE' = _save_auth_codes(_auth_codes'[i])
          ELSE UNCHANGED <<_auth_codes, AUTH_CODES_FILE>>
       /\ held' = [held EXCEPT ![i] = @ \cup result]
       /\ ret' = [op |-> "load_authorization_code",
                  authorization_code |-> authorization_code, result |-> result]
       /\ UNCHANGED <<now, ticks, rng, _clients, _tokens, _whoop_tokens,
                      CLIENTS_FILE, TOKENS_FILE, tokens_json, authorized, issued, revoked,
                      disk, otherPrograms>>

\* ---------------------------------------------- exchange_authorization_code
\* `" ".join(scopes) if scopes else None`
RECURSIVE Join(_)
Join(scopes) ==
    IF Len(scopes) = 0 THEN ""
    ELSE IF Len(scopes) = 1 THEN scopes[1]
    ELSE scopes[1] \o " " \o Join(Tail(scopes))
ScopeStringAlwaysJoined(scopes) == Some(Join(scopes))
ScopeString(scopes) == IF Len(scopes) > 0 THEN Some(Join(scopes)) ELSE None

exchange_authorization_code(i, client, authorization_code) ==
    LET \* lines 252-254
        codes == IF authorization_code.code \in DOMAIN _auth_codes[i]
                 THEN DictDel(_auth_codes[i], authorization_code.code)
                 ELSE _auth_codes[i]
        session_id == "session_" \o token_hex("session")
        whoop_tokens == DictGet(_whoop_tokens[i], DEFAULT_SESSION)
        access_token == token_urlsafe("access")
        expires_at == IntTime(now) + TOKEN_TTL
        mcp_access_token ==
            [type |-> "AccessToken", token |-> access_token,
             client_id |-> The(client.client_id),
             scopes |-> authorization_code.scopes,
             expires_at |-> Some(expires_at),
             resource |-> authorization_code.resource]
        refresh_token == token_urlsafe("refresh")
        mcp_refresh_token ==
            [type |-> "RefreshToken", token |-> refresh_token,
             client_id |-> The(client.client_id),
             scopes |-> authorization_code.scopes,
             expires_at |-> Some(expires_at + REFRESH_EXTRA)]
        response ==
            [access_token |-> access_token, token_type |-> "Bearer",
             expires_in |-> Some(TOKEN_TTL),
             scope |-> ScopeString(authorization_code.scopes),
             refresh_token |-> Some(refresh_token)]
        call == [op |-> "exchange_authorization_code"]
    IN /\ _auth_codes' = [_auth_codes EXCEPT ![i] = codes]
       /\ AUTH_CODES_FILE' =
              IF authorization_code.code \in DOMAIN _auth_codes[i]
              THEN _save_auth_codes(codes) ELSE AUTH_CODES_FILE
       /\ IF whoop_tokens = None
          THEN \* line 265: raised after the code is gone and one draw is made
               /\ rng["session"] < MaxSessions
               /\ rng' = Drawn({"session"})
               /\ ret' = call @@ [raised |-> Some("invalid_grant"),
                                  result |-> None]
               /\ UNCHANGED <<_tokens, _whoop_tokens, TOKENS_FILE, issued>>
          ELSE /\ rng["session"] < MaxSessions
               /\ rng["access"] < MaxTokens
               /\ rng' = Drawn({"session", "access", "refresh"})
               /\ _whoop_tokens' = [_whoop_tokens EXCEPT ![i] =
                                       DictSet(@, session_id, The(whoop_tokens))]
               /\ _tokens' = [_tokens EXCEPT ![i] =
                                 DictSet(@, access_token, mcp_access_token)]
               /\ TOKENS_FILE' = _save_tokens(_tokens'[i])
               /\ issued' = issued \cup
                              { [grant |-> "authorization_code",
                                 access_token |-> mcp_access_token,
                                 refresh_token |-> Some(mcp_refresh_token),
                                 code |-> Some(authorization_code),
                                 response |-> response, inst |-> i,
                                 time |-> now] }
               /\ ret' = call @@ [raised |-> None, result |-> Some(response)]
       /\ UNCHANGED <<now, ticks, _clients, CLIENTS_FILE, tokens_json, held,
                      authorized, revoked,
                      disk, otherPrograms>>

\* ------------------------------------------------------- load_refresh_token
\* The refresh token strings a request can carry: every one a token response
\* has returned, and one that was never issued.
RefreshTokens == { The(g.refresh_token) : g \in { h \in issued : h.refresh_token # None } }
RefreshStrings == { r.token : r \in RefreshTokens } \cup { "never-issued" }

\* load_refresh_token as it would be with the lookup written.
load_refresh_token_looked_up(i, client, refresh_token) ==
    /\ ret' = [op |-> "load_refresh_token", refresh_token |-> refresh_token,
               result |-> { r \in RefreshTokens : r.token = refresh_token }]
    /\ UNCHANGED <<now, ticks, rng, _clients, _tokens, _auth_codes,
                   _whoop_tokens, CLIENTS_FILE, TOKENS_FILE, AUTH_CODES_FILE,
                   tokens_json, held, authorized, issued, revoked,
                      disk, otherPrograms>>
load_refresh_token(i, client, refresh_token) ==
    /\ ret' = [op |-> "load_refresh_token", refresh_token |-> refresh_token,
               result |-> None]
    /\ UNCHANGED <<now, ticks, rng, _clients, _tokens, _auth_codes,
                   _whoop_tokens, CLIENTS_FILE, TOKENS_FILE, AUTH_CODES_FILE,
                   tokens_json, held, authorized, issued, revoked,
                      disk, otherPrograms>>

\* --------------------------------------------------- exchange_refresh_token
\* The RefreshToken objects a caller can pass: the ones built by
\* exchange_authorization_code, and one no exchange ever built.
ForgedRefreshToken ==
    [type |-> "RefreshToken", token |-> "never-issued", client_id |-> "nobody",
     scopes |-> <<>>, expires_at |-> Some(0)]
RefreshTokenInputs == RefreshTokens \cup { ForgedRefreshToken }
ScopeListInputs == { <<>>, <<"read:profile", "read:cycles">> }

\* exchange_refresh_token as it would be with the refresh token validated.
exchange_refresh_token_validated(i, client, refresh_token, scopes) ==
    /\ refresh_token \notin RefreshTokens
    /\ ret' = [op |-> "exchange_refresh_token",
               raised |-> Some("invalid_grant"), result |-> None]
    /\ UNCHANGED <<now, ticks, rng, _clients, _tokens, _auth_codes,
                   _whoop_tokens, CLIENTS_FILE, TOKENS_FILE, AUTH_CODES_FILE,
                   tokens_json, held, authorized, issued, revoked,
                      disk, otherPrograms>>
exchange_refresh_token(i, client, refresh_token, scopes) ==
    LET access_token == token_urlsafe("access")
        expires_at == IntTime(now) + TOKEN_TTL
        mcp_access_token ==
            [type |-> "AccessToken", token |-> access_token,
             client_id |-> The(client.client_id), scopes |-> scopes,
             expires_at |-> Some(expires_at), resource |-> None]
        response ==
            [access_token |-> access_token, token_type |-> "Bearer",
             expires_in |-> Some(TOKEN_TTL), scope |-> ScopeString(scopes),
             refresh_token |-> None]
    IN /\ rng["access"] < MaxTokens
       /\ rng' = Drawn({"access"})
       /\ _tokens' = [_tokens EXCEPT ![i] =
                         DictSet(@, access_token, mcp_access_token)]
       /\ TOKENS_FILE' = _save_tokens(_tokens'[i])
       /\ issued' = issued \cup
                      { [grant |-> "refresh_token",
                         access_token |-> mcp_access_token,
                         refresh_token |-> None, code |-> None,
                         response |-> response, inst |-> i, time |-> now] }
       /\ ret' = [op |-> "exchange_refresh_token", raised |-> None,
                  result |-> Some(response)]
       /\ UNCHANGED <<now, ticks, _clients, _auth_codes, _whoop_tokens,
                      CLIENTS_FILE, AUTH_CODES_FILE, tokens_json, held,
                      authorized, revoked,
                      disk, otherPrograms>>

\* -------------------------------------------------------- load_access_token
\* The bearer strings a request can carry: every access token ever issued or
\* stored, and one that was never issued.
AccessTokens(i) ==
    { g.access_token : g \in issued }
    \cup { _tokens[i][t] : t \in DOMAIN _tokens[i] }
AccessStrings(i) == { a.token : a \in AccessTokens(i) } \cup { "never-issued" }

\* line 354: `access_token.expires_at and time.time() > access_token.expires_at`
IsExpiredAtOrAfter(access_token, t) ==
    /\ access_token.expires_at # None
    /\ The(access_token.expires_at) # 0
    /\ t >= The(access_token.expires_at) * Res
IsExpired(access_token, t) ==
    /\ access_token.expires_at # None
    /\ The(access_token.expires_at) # 0
    /\ LaterThanSecs(t, The(access_token.expires_at))

load_access_token(i, token) ==
    LET access_token == DictGet(_tokens[i], token)
        expired == access_token # None /\ IsExpired(The(access_token), now)
        result == IF access_token = None \/ expired THEN None ELSE access_token
    IN /\ IF expired
          THEN /\ _tokens' = [_tokens EXCEPT ![i] = DictDel(@, token)]
               /\ TOKENS_FILE' = _save_tokens(_tokens'[i])
          ELSE UNCHANGED <<_tokens, TOKENS_FILE>>
       /\ ret' = [op |-> "load_access_token",
                  token |-> token, result |-> result]
       /\ UNCHANGED <<now, ticks, rng, _clients, _auth_codes, _whoop_tokens,
                      CLIENTS_FILE, AUTH_CODES_FILE, tokens_json, held, authorized, issued, revoked,
                      disk, otherPrograms>>

\* ------------------------------------------------------------- revoke_token
\* The token objects a revocation request can pass.
RevokeInputs(i) == AccessTokens(i) \cup RefreshTokenInputs

\* revoke_token as it would be without the call of _save_tokens (line 366).
revoke_token_not_saved(i, token) ==
    LET removes == token.type = "AccessToken" /\ token.token \in DOMAIN _tokens[i]
    IN /\ _tokens' = IF removes THEN [_tokens EXCEPT ![i] = DictDel(@, token.token)]
                     ELSE _tokens
       /\ revoked' = IF removes THEN revoked \cup {token.token} ELSE revoked
       /\ ret' = [op |-> "revoke_token", result |-> None]
       /\ UNCHANGED <<now, ticks, rng, _clients, _auth_codes, _whoop_tokens,
                      CLIENTS_FILE, TOKENS_FILE, AUTH_CODES_FILE, tokens_json,
                      held, authorized, issued,
                      disk, otherPrograms>>
revoke_token(i, token) ==
    LET removes == token.type = "AccessToken" /\ token.token \in DOMAIN _tokens[i]
    IN /\ IF removes
          THEN /\ _tokens' = [_tokens EXCEPT ![i] = DictDel(@, token.token)]
               /\ TOKENS_FILE' = _save_tokens(_tokens'[i])
               /\ revoked' = revoked \cup {token.token}
          ELSE UNCHANGED <<_tokens, TOKENS_FILE, revoked>>
       /\ ret' = [op |-> "revoke_token", result |-> None]
       /\ UNCHANGED <<now, ticks, rng, _clients, _auth_codes, _whoop_tokens,
                      CLIENTS_FILE, AUTH_CODES_FILE, tokens_json, held,
                      authorized, issued,
                      disk, otherPrograms>>

\* ------------------------------------------------- create_session_for_token
create_session_for_token(i, access_token) ==
    LET session_id == "session_" \o token_hex("session")
        default_tokens == DictGet(_whoop_tokens[i], DEFAULT_SESSION)
    IN /\ rng["session"] < MaxSessions
       /\ rng' = Drawn({"session"})
       /\ _whoop_tokens' =
              IF default_tokens # None
              THEN [_whoop_tokens EXCEPT ![i] =
                       DictSet(@, session_id, The(default_tokens))]
              ELSE _whoop_tokens
       /\ ret' = [op |-> "create_session_for_token", result |-> session_id]
       /\ UNCHANGED <<now, ticks, _clients, _tokens, _auth_codes, CLIENTS_FILE,
                      TOKENS_FILE, AUTH_CODES_FILE, tokens_json, held, authorized, issued, revoked,
                      disk, otherPrograms>>

\* --------------------------------------------------------- specifications
\* Every operation of the provider instance i, on every input.
Operation(i) ==
    \/ \E client_info \in ClientInfoInputs : register_client(i, client_info)
    \/ \E client \in Clients(i) : \E params \in ParamsInputs(client) :
          authorize(i, client, params)
    \/ \E client \in Clients(i) : \E code \in CodeStrings(i) :
          load_authorization_code(i, client, code)
    \/ \E client \in Clients(i) : \E code \in held[i] :
          exchange_authorization_code(i, client, code)
    \/ \E client \in Clients(i) : \E r \in RefreshStrings :
          load_refresh_token(i, client, r)
    \/ \E client \in Clients(i) : \E r \in RefreshTokenInputs :
          \E scopes \in ScopeListInputs :
             exchange_refresh_token(i, client, r, scopes)
    \/ \E token \in AccessStrings(i) : load_access_token(i, token)
    \/ \E token \in RevokeInputs(i) : revoke_token(i, token)
    \/ Restart(i)

\* The deployment of the repository: one process, one provider (line 390).
Next ==
    \/ \E t \in TickTargets : Tick(t)
    \/ Operation("A")

Spec == Init /\ [][Next]_vars

\* The same with create_session_for_token, which nothing in the repository
\* calls.
NextSessions ==
    \/ Next
    \/ \E token \in AccessStrings("A") : create_session_for_token("A", token)

SpecSessions == Init /\ [][NextSessions]_vars

\* The storage directory changes between accepting writes, refusing to open a
\* file for writing, and failing a write after the file was opened.
Disks == {"ok", "open_fails", "write_fails"}
SetDisk(d) ==
    /\ d # disk
    /\ disk' = d
    /\ UNCHANGED <<now, ticks, rng, _clients, _tokens, _auth_codes,
                   _whoop_tokens, CLIENTS_FILE, TOKENS_FILE, AUTH_CODES_FILE,
                   tokens_json, held, authorized, issued, revoked, ret,
                   otherPrograms>>

\* The one provider process on a storage directory whose writes can fail: the
\* operations of the authorization code grant and the revocation, which
\* between them write each of the three store files, and the restart that
\* reads the files back.
StoreWritingOperation(i) ==
    \/ \E client_info \in ClientInfoInputs : register_client(i, client_info)
    \/ \E client \in Clients(i) : \E params \in ParamsInputs(client) :
          authorize(i, client, params)
    \/ \E client \in Clients(i) : \E code \in CodeStrings(i) :
          load_authorization_code(i, client, code)
    \/ \E client \in Clients(i) : \E code \in held[i] :
          exchange_authorization_code(i, client, code)
    \/ \E token \in RevokeInputs(i) : revoke_token(i, token)
    \/ Restart(i)

NextFail ==
    \/ StoreWritingOperation("A")
    \/ \E d \in Disks : SetDisk(d)

SpecFail == Init /\ [][NextFail]_vars

\* Two provider processes on one storage directory, in which an earlier run
\* has registered a client: both have loaded the files at start-up, and each
\* serves the requests that read or write the token store.
SharedClient ==
    [client_id |-> Some("client_id-1"), client_secret |-> Some("client_secret-1"),
     client_id_issued_at |-> Some(0),
     redirect_uris |-> Some(<<AnyUrl("https://app.example/cb")>>)]
InitShared ==
    /\ disk = "ok"
    /\ now = 0
    /\ ticks = 0
    /\ rng = [p \in Purposes |->
                IF p \in {"client_id", "client_secret"} THEN 1 ELSE 0]
    /\ tokens_json \in VendorFiles
    /\ CLIENTS_FILE = _save_clients([k \in {"client_id-1"} |-> SharedClient])
    /\ TOKENS_FILE = None
    /\ AUTH_CODES_FILE = None
    /\ _clients = [i \in Inst |-> _load_clients(CLIENTS_FILE)]
    /\ _tokens = [i \in Inst |-> _load_tokens(TOKENS_FILE)]
    /\ _auth_codes = [i \in Inst |-> _load_auth_codes(AUTH_CODES_FILE)]
    /\ _whoop_tokens = [i \in Inst |-> _load_whoop_tokens(tokens_json)]
    /\ held = [i \in Inst |-> {}]
    /\ authorized = {}
    /\ issued = {}
    /\ revoked = {}
    /\ ret = NoCall
    /\ OtherProgramsInit

TokenStoreOperation(i) ==
    \/ \E client \in Clients(i) : \E r \in RefreshTokenInputs :
          \E scopes \in ScopeListInputs :
             exchange_refresh_token(i, client, r, scopes)
    \/ \E token \in AccessStrings(i) : load_access_token(i, token)
    \/ \E token \in RevokeInputs(i) : revoke_token(i, token)
    \/ Restart(i)

NextShared ==
    \/ \E t \in TickTargets : Tick(t)
    \/ \E i \in Inst : TokenStoreOperation(i)

SpecShared == InitShared /\ [][NextShared]_vars

\* The one provider process, started on a storage directory in which an
\* earlier process has registered a client.
EarlierClient ==
    [client_id |-> Some("client_id-0"), client_secret |-> Some("client_secret-0"),
     client_id_issued_at |-> Some(0),
     redirect_uris |-> Some(<<AnyUrl("https://earlier.example/cb")>>)]
InitRegistered ==
    /\ now = 0
    /\ ticks = 0
    /\ rng = [p \in Purposes |-> 0]
    /\ tokens_json \in VendorFiles
    /\ CLIENTS_FILE = Some([k \in {"client_id-0"} |-> ClientDump(EarlierClient)])
    /\ TOKENS_FILE = None
    /\ AUTH_CODES_FILE = None
    /\ _clients = [i \in Inst |-> _load_clients(CLIENTS_FILE)]
    /\ _tokens = [i \in Inst |-> _load_tokens(TOKENS_FILE)]
    /\ _auth_codes = [i \in Inst |-> _load_auth_codes(AUTH_CODES_FILE)]
    /\ _whoop_tokens = [i \in Inst |-> _load_whoop_tokens(tokens_json)]
    /\ held = [i \in Inst |-> {}]
    /\ authorized = {}
    /\ issued = {}
    /\ revoked = {}
    /\ ret = NoCall
    /\ disk = "ok"
    /\ OtherProgramsInit

\* Every operation of the provider, at one instant.
NextRegistered == Operation("A")

SpecRegistered == InitRegistered /\ [][NextRegistered]_vars

\* ====================================================== the socket server
\* src/src/simple_mcp_server.py. A byte string is the sequence of its lexemes:
\* the braces and commas of a JSON object, its members, a whole JSON array,
\* and a byte that is not UTF-8.
MaxReads == 3     \* how many times recv returns in a run

\* JSON values: a type tag, the text of a scalar, the entries of an object.
JStr(s) == [t |-> "str", v |-> s, d |-> EmptyDict]
JInt(s) == [t |-> "int", v |-> s, d |-> EmptyDict]
JNull == [t |-> "null", v |-> "null", d |-> EmptyDict]
JObject(d) == [t |-> "object", v |-> "", d |-> d]
JArray == [t |-> "array", v |-> "[]", d |-> EmptyDict]
\* Python truthiness of a JSON value (`not method`, line 98)
Truthy(x) ==
    CASE x.t = "str" -> x.v # ""
      [] x.t = "int" -> x.v # "0"
      [] x.t = "null" -> FALSE
      [] x.t = "object" -> DOMAIN x.d # {}
      [] x.t = "array" -> x.v # "[]"

\* The members a request text is written with.
Members ==
    { [text |-> "\"jsonrpc\":\"2.0\"", key |-> "jsonrpc", value |-> JStr("2.0")],
      [text |-> "\"jsonrpc\":\"1.0\"", key |-> "jsonrpc", value |-> JStr("1.0")],
      [text |-> "\"method\":\"initialize\"", key |-> "method", value |-> JStr("initialize")],
      [text |-> "\"method\":\"echo\"", key |-> "method", value |-> JStr("echo")],
      [text |-> "\"method\":\"shutdown\"", key |-> "method", value |-> JStr("shutdown")],
      [text |-> "\"method\": \"shutdown\"", key |-> "method", value |-> JStr("shutdown")],
      [text |-> "\"method\":\"tools/list\"", key |-> "method", value |-> JStr("tools/list")],
      [text |-> "\"method\":\"\"", key |-> "method", value |-> JStr("")],
      [text |-> "\"id\":7", key |-> "id", value |-> JInt("7")],
      [text |-> "\"params\":null", key |-> "params", value |-> JNull],
      [text |-> "\"params\":{\"text\":\"hi\"}", key |-> "params",
       value |-> JObject([k \in {"text"} |-> "hi"])],
      [text |-> "\"params\":{\"method\":\"shutdown\"}", key |-> "params",
       value |-> JObject([k \in {"method"} |-> "shutdown"])] }
MemberTexts == { m.text : m \in Members }
Member(text) == CHOOSE m \in Members : m.text = text

\* The text of a JSON object with the given members.
RECURSIVE Commas(_)
Commas(members) ==
    IF Len(members) = 0 THEN <<>>
    ELSE IF Len(members) = 1 THEN <<members[1]>>
    ELSE <<members[1], ",">> \o Commas(Tail(members))
ObjectText(members) == <<"{">> \o Commas(members) \o <<"}">>

\* The request texts a client sends.
Requests ==
    { ObjectText(<<"\"jsonrpc\":\"2.0\"", "\"method\":\"initialize\"", "\"id\":7">>),
      ObjectText(<<"\"jsonrpc\":\"2.0\"", "\"method\":\"echo\"",
                   "\"params\":{\"text\":\"hi\"}", "\"id\":7">>),
      ObjectText(<<"\"jsonrpc\":\"2.0\"", "\"method\":\"echo\"", "\"params\":null">>),
      ObjectText(<<"\"jsonrpc\":\"2.0\"", "\"method\":\"echo\"",
                   "\"params\":{\"method\":\"shutdown\"}", "\"id\":7">>),
      ObjectText(<<"\"jsonrpc\":\"2.0\"", "\"method\":\"shutdown\"", "\"id\":7">>),
      ObjectText(<<"\"jsonrpc\":\"2.0\"", "\"method\": \"shutdown\"">>),
      ObjectText(<<"\"jsonrpc\":\"2.0\"", "\"method\":\"tools/list\"", "\"id\":7">>),
      ObjectText(<<"\"jsonrpc\":\"1.0\"", "\"method\":\"echo\"", "\"id\":7">>),
      ObjectText(<<"\"jsonrpc\":\"2.0\"", "\"id\":7">>),
      ObjectText(<<"\"jsonrpc\":\"2.0\"", "\"method\":\"\"", "\"id\":7">>),
      <<"[]">> }
\* Where the network cuts a request in two.
SplitAt == 4
InvalidUtf8 == "\\xff"
\* What one recv returns: a whole request, the part of a request before or
\* after the cut, or bytes that are not UTF-8.
Chunks ==
    Requests
    \cup { SubSeq(r, 1, SplitAt) : r \in { q \in Requests : Len(q) > SplitAt } }
    \cup { SubSeq(r, SplitAt + 1, Len(r)) : r \in { q \in Requests : Len(q) > SplitAt } }
    \cup { <<InvalidUtf8>> }

\* buffer.decode('utf-8') raises UnicodeDecodeError
RaisesUnicodeDecodeError(bytes) == \E k \in DOMAIN bytes : bytes[k] = InvalidUtf8

\* json.loads: the text is a JSON document when it is the array, or an
\* object: braces around members separated by commas.
IsObjectText(text) ==
    /\ Len(text) >= 2
    /\ text[1] = "{"
    /\ text[Len(text)] = "}"
    /\ \/ Len(text) = 2
       \/ /\ Len(text) % 2 = 1
          /\ \A k \in 2..(Len(text) - 1) :
                IF k % 2 = 0 THEN text[k] \in MemberTexts ELSE text[k] = ","
RaisesJSONDecodeError(text) == ~(text = <<"[]">> \/ IsObjectText(text))
\* The value json.loads returns: for an object, each key with the value of its
\* last member.
json_loads(text) ==
    IF text = <<"[]">> THEN JArray
    ELSE LET at == { k \in 2..(Len(text) - 1) : k % 2 = 0 }
             keys == { Member(text[k]).key : k \in at }
             last(key) == CHOOSE k \in at :
                             /\ Member(text[k]).key = key
                             /\ \A j \in at : Member(text[j]).key = key => j <= k
         IN JObject([key \in keys |-> Member(text[last(key)]).value])

\* dict.get(key): None when the key is absent
Get(message, key) == IF key \in DOMAIN message.d THEN Some(message.d[key]) ELSE None

\* create_response, lines 54-66
create_response(request_id, result, error) ==
    [jsonrpc |-> "2.0", id |-> request_id,
     error |-> error,
     result |-> IF error # None THEN None ELSE Some(result)]
JsonRpcError(code, message) == [code |-> code, message |-> message]

\* handle_initialize and handle_echo, lines 68-82: both call params.get, which
\* raises AttributeError unless params is a dict.
RaisesAttributeError(params) == params.t # "object"
handle_initialize(params) == [kind |-> "capabilities", text |-> "Simple MCP Server"]
handle_echo(params) ==
    [kind |-> "echo",
     text |-> "Echo: " \o (IF "text" \in DOMAIN params.d THEN params.d["text"]
                           ELSE "No text provided")]

\* line 115 and lines 117-122, as they would be with the code of an invalid
\* request.
MethodNotFoundAsInvalidRequest(request_id) ==
    create_response(request_id, JNull,
                    Some(JsonRpcError(-32600, "Method not found")))
\* line 115 and lines 117-122: JsonRpcError(-32601) turned into a response
MethodNotFound(request_id) ==
    create_response(request_id, JNull,
                    Some(JsonRpcError(-32601, "Method not found")))

handle_jsonrpc_message(message_str) ==
    IF RaisesJSONDecodeError(message_str)
    THEN create_response(None, JNull, Some(JsonRpcError(-32700, "Parse error")))
    ELSE
    LET message == json_loads(message_str)
    IN IF message.t # "object"
       THEN \* message.get raises AttributeError before request_id is bound
            create_response(None, JNull, Some(JsonRpcError(-32603, "Internal error")))
       ELSE
       LET jsonrpc == Get(message, "jsonrpc")
           method == Get(message, "method")
           params == IF "params" \in DOMAIN message.d THEN message.d["params"]
                     ELSE JObject(EmptyDict)
           request_id == Get(message, "id")
           name == IF method # None /\ The(method).t = "str" THEN The(method).v ELSE ""
       IN IF jsonrpc # Some(JStr("2.0"))
          THEN create_response(None, JNull,
                  Some(JsonRpcError(-32600, "Invalid Request: Not JSON-RPC 2.0")))
          ELSE IF method = None \/ ~Truthy(The(method))
          THEN create_response(None, JNull,
                  Some(JsonRpcError(-32600, "Invalid Request: No method specified")))
          ELSE IF name \in {"initialize", "echo"} /\ RaisesAttributeError(params)
          THEN create_response(request_id, JNull,
                  Some(JsonRpcError(-32603, "Internal error")))
          ELSE IF name = "initialize"
          THEN create_response(request_id, handle_initialize(params), None)
          ELSE IF name = "echo"
          THEN create_response(request_id, handle_echo(params), None)
          ELSE IF name = "shutdown"
          THEN create_response(request_id,
                               [kind |-> "status", text |-> "shutting down"], None)
          ELSE MethodNotFound(request_id)

\* line 179: '"method":"shutdown"' in message_str. The text occurs in the
\* member that is written so, and in a params object that has such a member.
ShutdownRequested(message_str) ==
    \E k \in DOMAIN message_str :
       message_str[k] \in { "\"method\":\"shutdown\"",
                            "\"params\":{\"method\":\"shutdown\"}" }

\* run_server, lines 223-232: a connection is accepted and handle_client
\* starts on it with an empty buffer.
Accept ==
    /\ ~connected
    /\ reads < MaxReads
    /\ connected' = TRUE
    /\ buffer' = <<>>
    /\ sent' = <<>>
    /\ UNCHANGED <<reads, providerVars, flowVars, toolVars, scriptVars>>

\* handle_client, one turn of the loop (lines 154-191) in which recv returns
\* `data`.
Recv(data) ==
    LET received == buffer \o data
        response == handle_jsonrpc_message(received)
    IN /\ connected
       /\ reads < MaxReads
       /\ reads' = reads + 1
       /\ IF RaisesUnicodeDecodeError(received)
          THEN /\ buffer' = <<>>
               /\ UNCHANGED <<sent, connected>>
          ELSE /\ sent' = Append(sent, response)
               /\ buffer' = <<>>
               /\ connected' = ~ShutdownRequested(received)
       /\ UNCHANGED <<providerVars, flowVars, toolVars, scriptVars>>

\* recv returns b"" (the client closed), or raises socket.timeout or
\* ConnectionResetError: the loop ends and the socket is closed.
Disconnect ==
    /\ connected
    /\ connected' = FALSE
    /\ UNCHANGED <<buffer, sent, reads, providerVars, flowVars, toolVars, scriptVars>>

NextSocket ==
    \/ Accept
    \/ \E data \in Chunks : Recv(data)
    \/ Disconnect

SpecSocket == Init /\ [][NextSocket]_vars

\* ==================================================== the tool dispatcher
\* src/src/whoop_server.py. A Python dict a tool returns is a record, held as
\* the one item of a value of type "dict"; a Python list of dicts is a value
\* of type "list".
MaxCalls == 2     \* how many calls the upstream client receives in a run
MaxCycles == 2    \* how many cycles a fetched collection holds at most

DictValue(d) == [type |-> "dict", items |-> <<d>>]
ListValue(l) == [type |-> "list", items |-> l]
Timestamp == "datetime.now().isoformat()"

\* What a call of the upstream client does: it raises, or returns a value.
Raises(message) == [raises |-> Some(message)]
Returns(value) == [raises |-> None, value |-> value]
UpstreamErrors == { "401 Client Error: Unauthorized" }

\* The cycles of a collection: without a score, with a score that has no
\* strain, and with a strain of 0, 4 or 7.
CycleInputs ==
    { [id |-> "cycle", score |-> None],
      [id |-> "cycle", score |-> Some([strain |-> None, recovery |-> Some(50)])] }
    \cup { [id |-> "cycle", score |-> Some([strain |-> Some(s), recovery |-> None])]
           : s \in {0, 4, 7} }
CycleLists ==
    UNION { [1..n -> CycleInputs] : n \in 0..MaxCycles }
\* Any other collection: empty, or one or two entries.
ItemLists == { <<>>, <<[id |-> "first"]>>, <<[id |-> "first"], [id |-> "second"]>> }
\* The answer to a read by id: nothing, or the entry.
ItemOptions == { None, Some([id |-> "first"]) }
\* The answer to get_recovery_collection as get_latest_recovery reads it.
RecoveryRecords ==
    { [score |-> s] : s \in {"absent", "null", "61"} }
RecoveryCollections ==
    { None, Some([records |-> <<>>]) }
    \cup { Some([records |-> <<r>>]) : r \in RecoveryRecords }

CollectionOutcomes(lists) ==
    { Raises(m) : m \in UpstreamErrors } \cup { Returns(l) : l \in lists }

\* The error values of the tools, as a dict and inside a one-element list.
ErrorDict(message) == DictValue([error |-> message])
ErrorListNotWrapped(message) == DictValue([error |-> message])
ErrorList(message) == ListValue(<<[error |-> message]>>)
NOT_AUTHENTICATED == "Not authenticated with Whoop"

\* initialize_whoop_client, lines 32-59: the client is created only when the
\* .env file exists, has both credentials, and the login succeeds.
Environments == { "no .env", "no credentials", "login raises", "login succeeds" }
initialize_whoop_client(env) ==
    /\ tool_ret = NoCall
    /\ whoop_client' = IF env = "login succeeds" THEN Some("WhoopClient") ELSE None
    /\ tool_ret' = [op |-> "initialize_whoop_client"]
    /\ UNCHANGED <<upstream_calls, providerVars, flowVars, socketVars, scriptVars>>

\* A tool that was called: its name, what upstream answered if it was asked,
\* and the value the tool returned.
ToolReturn(tool, outcome, result) ==
    /\ tool_ret # NoCall
    /\ tool_ret' = [op |-> tool, upstream |-> outcome, result |-> result]
    /\ IF outcome = None
       THEN UNCHANGED upstream_calls
       ELSE upstream_calls < MaxCalls /\ upstream_calls' = upstream_calls + 1
    /\ UNCHANGED <<whoop_client, providerVars, flowVars, socketVars, scriptVars>>

\* lines 81-95
get_latest_cycle(outcome) ==
    IF whoop_client = None
    THEN ToolReturn("get_latest_cycle", None, ErrorDict(NOT_AUTHENTICATED))
    ELSE IF outcome.raises # None
    THEN ToolReturn("get_latest_cycle", Some(outcome), ErrorDict(The(outcome.raises)))
    ELSE IF Len(outcome.value) = 0
    THEN ToolReturn("get_latest_cycle", Some(outcome), ErrorDict("No cycle data available"))
    ELSE LET latest_cycle == outcome.value[1]
             recovery_score ==
                 IF /\ latest_cycle.score # None
                    /\ The(latest_cycle.score).recovery # None
                    /\ The(The(latest_cycle.score).recovery) # 0
                 THEN The(latest_cycle.score).recovery
                 ELSE None
         IN ToolReturn("get_latest_cycle", Some(outcome),
                       DictValue([cycle |-> latest_cycle,
                                  recovery_score |-> recovery_score,
                                  timestamp |-> Timestamp]))

\* lines 125-128 (and whoop_http_server.py, lines 122-125): the strains of
\* the cycles whose score and strain are truthy.
RECURSIVE ExtractStrains(_)
ExtractStrains(cycles) ==
    IF Len(cycles) = 0 THEN <<>>
    ELSE LET cycle == cycles[1]
             has == /\ cycle.score # None
                    /\ The(cycle.score).strain # None
                    /\ The(The(cycle.score).strain) # 0
         IN (IF has THEN <<The(The(cycle.score).strain)>> ELSE <<>>)
            \o ExtractStrains(Tail(cycles))
RECURSIVE Sum(_)
Sum(numbers) == IF Len(numbers) = 0 THEN 0 ELSE numbers[1] + Sum(Tail(numbers))
\* sum(strains) / len(strains), as the fraction it is
Mean(numbers) == [num |-> Sum(numbers), den |-> Len(numbers)]
DaysInputs == {7}

get_average_strain(days, outcome) ==
    IF whoop_client = None
    THEN ToolReturn("get_average_strain", None, ErrorDict(NOT_AUTHENTICATED))
    ELSE IF outcome.raises # None
    THEN ToolReturn("get_average_strain", Some(outcome), ErrorDict(The(outcome.raises)))
    ELSE IF Len(outcome.value) = 0
    THEN ToolReturn("get_average_strain", Some(outcome),
                    ErrorDict("No cycle data available"))
    ELSE LET strains == ExtractStrains(outcome.value)
         IN IF Len(strains) = 0
            THEN ToolReturn("get_average_strain", Some(outcome),
                            ErrorDict("No strain data available"))
            ELSE ToolReturn("get_average_strain", Some(outcome),
                            DictValue([average_strain |-> Mean(strains),
                                       days_analyzed |-> days,
                                       samples |-> Len(strains),
                                       timestamp |-> Timestamp]))

\* whoop_http_server.py, lines 105-136: the same computation behind GET
\* /strain/average; every failure is an HTTPException, and the 404s raised
\* inside the try block come out as 500.
get_average_strain_http(days, outcome) ==
    IF whoop_client = None
    THEN ToolReturn("GET /strain/average", None,
                    DictValue([status_code |-> 401, detail |-> NOT_AUTHENTICATED]))
    ELSE IF outcome.raises # None
    THEN ToolReturn("GET /strain/average", Some(outcome),
                    DictValue([status_code |-> 500, detail |-> The(outcome.raises)]))
    ELSE IF Len(outcome.value) = 0
    THEN ToolReturn("GET /strain/average", Some(outcome),
                    DictValue([status_code |-> 500,
                               detail |-> "404: No cycle data available"]))
    ELSE LET strains == ExtractStrains(outcome.value)
         IN IF Len(strains) = 0
            THEN ToolReturn("GET /strain/average", Some(outcome),
                            DictValue([status_code |-> 500,
                                       detail |-> "404: No strain data available"]))
            ELSE ToolReturn("GET /strain/average", Some(outcome),
                            DictValue([average_strain |-> Mean(strains),
                                       days_analyzed |-> days,
                                       samples |-> Len(strains)]))

\* whoop_http_server.py: what FastAPI answers when the endpoint raises
\* HTTPException(status_code, detail).
HTTPException(status_code, detail) ==
    DictValue([status_code |-> status_code, detail |-> detail])
\* whoop_http_server.py, lines 84-103: GET /cycles/latest. The 404 is raised
\* inside the try block, whose `except Exception` turns it into a 500.
get_latest_cycle_http(outcome) ==
    IF whoop_client = None
    THEN ToolReturn("GET /cycles/latest", None, HTTPException(401, NOT_AUTHENTICATED))
    ELSE IF outcome.raises # None
    THEN ToolReturn("GET /cycles/latest", Some(outcome),
                    HTTPException(500, The(outcome.raises)))
    ELSE IF Len(outcome.value) = 0
    THEN ToolReturn("GET /cycles/latest", Some(outcome),
                    HTTPException(500, "404: No cycle data available"))
    ELSE ToolReturn("GET /cycles/latest", Some(outcome), DictValue(outcome.value[1]))

\* whoop_http_server.py, lines 138-155: GET /cycles?limit=
LimitInputs == { 1, 10 }
get_cycles_http(limit, outcome) ==
    IF whoop_client = None
    THEN ToolReturn("GET /cycles", None, HTTPException(401, NOT_AUTHENTICATED))
    ELSE IF outcome.raises # None
    THEN ToolReturn("GET /cycles", Some(outcome),
                    HTTPException(500, The(outcome.raises)))
    ELSE IF Len(outcome.value) = 0
    THEN ToolReturn("GET /cycles", Some(outcome),
                    HTTPException(500, "404: No cycle data available"))
    ELSE ToolReturn("GET /cycles", Some(outcome),
            ListValue(SubSeq(outcome.value, 1,
                             IF limit < Len(outcome.value) THEN limit
                             ELSE Len(outcome.value))))

\* The tools that return a collection as a list of dicts: get_cycles,
\* get_recoveries, get_sleeps, get_workouts, get_strains, get_team_members.
CollectionTool(tool, key, empty, outcome) ==
    IF whoop_client = None
    THEN ToolReturn(tool, None, ErrorList(NOT_AUTHENTICATED))
    ELSE IF outcome.raises # None
    THEN ToolReturn(tool, Some(outcome), ErrorList(The(outcome.raises)))
    ELSE IF Len(outcome.value) = 0
    THEN ToolReturn(tool, Some(outcome), ErrorList(empty))
    ELSE ToolReturn(tool, Some(outcome),
            ListValue([n \in 1..Len(outcome.value) |->
                          [kind |-> key, entry |-> outcome.value[n],
                           timestamp |-> Timestamp]]))
get_cycles(outcome) ==
    CollectionTool("get_cycles", "cycle", "No cycle data available", outcome)
get_recoveries(outcome) ==
    CollectionTool("get_recoveries", "recovery", "No recovery data available", outcome)
get_sleeps(outcome) ==
    CollectionTool("get_sleeps", "sleep", "No sleep data available", outcome)
get_workouts(outcome) ==
    CollectionTool("get_workouts", "workout", "No workout data available", outcome)
get_strains(outcome) ==
    CollectionTool("get_strains", "strain", "No strain data available", outcome)
get_team_members(team_id, outcome) ==
    CollectionTool("get_team_members", "member",
                   "No members found for team " \o team_id, outcome)

\* The tools that return one entry as a dict: the reads by id and
\* get_user_body_measurements.
EntryTool(tool, key, missing, outcome) ==
    IF whoop_client = None
    THEN ToolReturn(tool, None, ErrorDict(NOT_AUTHENTICATED))
    ELSE IF outcome.raises # None
    THEN ToolReturn(tool, Some(outcome), ErrorDict(The(outcome.raises)))
    ELSE IF outcome.value = None
    THEN ToolReturn(tool, Some(outcome), ErrorDict(missing))
    ELSE ToolReturn(tool, Some(outcome),
            DictValue([kind |-> key, entry |-> The(outcome.value),
                       timestamp |-> Timestamp]))
get_cycle_by_id(cycle_id, outcome) ==
    EntryTool("get_cycle_by_id", "cycle", "No cycle found with ID " \o cycle_id, outcome)
get_recovery_by_id(recovery_id, outcome) ==
    EntryTool("get_recovery_by_id", "recovery",
              "No recovery found with ID " \o recovery_id, outcome)
get_sleep_by_id(sleep_id, outcome) ==
    EntryTool("get_sleep_by_id", "sleep", "No sleep found with ID " \o sleep_id, outcome)
get_workout_by_id(workout_id, outcome) ==
    EntryTool("get_workout_by_id", "workout",
              "No workout found with ID " \o workout_id, outcome)
get_strain_by_id(strain_id, outcome) ==
    EntryTool("get_strain_by_id", "strain",
              "No strain found with ID " \o strain_id, outcome)
get_user_body_measurements(outcome) ==
    EntryTool("get_user_body_measurements", "measurements",
              "No body measurement data available", outcome)

\* lines 507-529
get_latest_recovery(outcome) ==
    IF whoop_client = None
    THEN ToolReturn("get_latest_recovery", None, ErrorDict(NOT_AUTHENTICATED))
    ELSE IF outcome.raises # None
    THEN ToolReturn("get_latest_recovery", Some(outcome),
                    ErrorDict(The(outcome.raises)))
    ELSE IF outcome.value = None \/ Len(The(outcome.value).records) = 0
    THEN ToolReturn("get_latest_recovery", Some(outcome),
                    ErrorDict("No recent recovery data available"))
    ELSE LET latest_recovery == The(outcome.value).records[1]
         IN IF latest_recovery.score = "null"
            THEN \* None.get raises AttributeError inside the try block
                 ToolReturn("get_latest_recovery", Some(outcome),
                    ErrorDict("'NoneType' object has no attribute 'get'"))
            ELSE ToolReturn("get_latest_recovery", Some(outcome),
                    DictValue([recovery |-> latest_recovery,
                               recovery_score |->
                                   IF latest_recovery.score = "absent" THEN None
                                   ELSE Some(latest_recovery.score),
                               timestamp |-> Timestamp]))

\* The ids a request names.
Ids == { "42" }
EntryOutcomes ==
    { Raises(m) : m \in UpstreamErrors } \cup { Returns(o) : o \in ItemOptions }

NextTools ==
    \/ \E env \in Environments : initialize_whoop_client(env)
    \/ \E o \in CollectionOutcomes(CycleLists) : get_latest_cycle(o)
    \/ \E days \in DaysInputs : \E o \in CollectionOutcomes(CycleLists) :
          get_average_strain(days, o)
    \/ \E days \in DaysInputs : \E o \in CollectionOutcomes(CycleLists) :
          get_average_strain_http(days, o)
    \/ \E o \in CollectionOutcomes(CycleLists) : get_latest_cycle_http(o)
    \/ \E limit \in LimitInputs : \E o \in CollectionOutcomes(CycleLists) :
          get_cycles_http(limit, o)
    \/ \E o \in CollectionOutcomes(CycleLists) : get_cycles(o)
    \/ \E id \in Ids : \E o \in EntryOutcomes : get_cycle_by_id(id, o)
    \/ \E id \in Ids : \E o \in EntryOutcomes : get_recovery_by_id(id, o)
    \/ \E id \in Ids : \E o \in EntryOutcomes : get_sleep_by_id(id, o)
    \/ \E id \in Ids : \E o \in EntryOutcomes : get_workout_by_id(id, o)
    \/ \E id \in Ids : \E o \in EntryOutcomes : get_strain_by_id(id, o)
    \/ \E o \in CollectionOutcomes(ItemLists) : get_recoveries(o)
    \/ \E o \in CollectionOutcomes(ItemLists) : get_sleeps(o)
    \/ \E o \in CollectionOutcomes(ItemLists) : get_workouts(o)
    \/ \E o \in CollectionOutcomes(ItemLists) : get_strains(o)
    \/ \E o \in EntryOutcomes : get_user_body_measurements(o)
    \/ \E o \in CollectionOutcomes(RecoveryCollections) : get_latest_recovery(o)
    \/ \E id \in Ids : \E o \in CollectionOutcomes(ItemLists) : get_team_members(id, o)

SpecTools == Init /\ [][NextTools]_vars

\* ============================================== the authentication script
\* src/scripts/authenticate_whoop.py: the exchange of the vendor's
\* authorization code and save_tokens, one action per statement that touches
\* config/tokens.json. Permission bits are numbers: 0o600 is 384.
OWNER_READ_WRITE == 384   \* os.chmod(TOKEN_FILE, 0o600)
FILE_CREATE_MODE == 438   \* 0o666, the mode open(TOKEN_FILE, "w") creates with
\* The umasks the script runs under: 0o022, 0o077 and 0o002.
Umasks == { 18, 63, 2 }
\* a & ~b on permission bits
RECURSIVE AndNot(_, _)
AndNot(a, b) ==
    IF a = 0 THEN 0
    ELSE (IF a % 2 = 1 /\ b % 2 = 0 THEN 1 ELSE 0) + 2 * AndNot(a \div 2, b \div 2)

\* What the vendor's token endpoint answers: an error status, or a token
\* response with or without a refresh token.
TokenData ==
    { [access_token |-> a, refresh_token |-> r]
      : a \in {"whoop-access", "whoop-access-2"}, r \in {None, Some("whoop-refresh")} }
TokenResponses == { None } \cup { Some(t) : t \in TokenData }

\* generate_authorization_url, line 42: the state of this run, which no
\* earlier run and nobody else has generated.
GeneratedState == "state-of-this-run"
\* What the user pastes: nothing, or a URL whose query has or lacks an error,
\* a code and a state, each possibly with a blank value.
EmptyUrl == [empty |-> TRUE, error |-> None, code |-> None, state |-> None]
CallbackUrls ==
    { EmptyUrl } \cup
    { [empty |-> FALSE, error |-> e, code |-> c, state |-> st]
      : e \in { None, Some(""), Some("access_denied") },
        c \in { None, Some(""), Some("vendor-code") },
        st \in { None, Some(""), Some(GeneratedState), Some("state-of-another-run") } }
\* What the user answers to "Continue anyway? (y/N)".
Answers == { "y", "Y", "n", "" }
\* str.lower()
Lower(a) == IF a = "Y" THEN "y" ELSE a
\* parse_qs(parsed.query), line 135: a parameter with a blank value is left
\* out (keep_blank_values is False).
NonBlank(opt) == IF opt = Some("") THEN None ELSE opt
parse_qs(url) == [error |-> NonBlank(url.error), code |-> NonBlank(url.code),
                  state |-> NonBlank(url.state)]

\* lines 154-156: `"state" in query_params` and `callback_state != state`
StateMismatch(query, state) == query.state # None /\ The(query.state) # state

\* main, lines 98-165, in a run of the script: from the start to the return
\* with status 1 or to the call of exchange_code_for_tokens.
main(callback_url, answer) ==
    LET state == GeneratedState
        query_params == parse_qs(callback_url)
        reaches_state == /\ ~callback_url.empty
                         /\ query_params.error = None
                         /\ query_params.code # None
        asked == reaches_state /\ StateMismatch(query_params, state)
        returns == ~reaches_state \/ (asked /\ Lower(answer) # "y")
    IN /\ pc.at \in {"idle", "returned"}
       /\ pc' = [at |-> IF returns THEN "returned" ELSE "exchange",
                 token_data |-> None,
                 url |-> Some(callback_url),
                 answer |-> IF asked THEN Some(answer) ELSE None,
                 exchanged |-> FALSE,
                 status |-> IF returns THEN Some(1) ELSE None]
       /\ UNCHANGED <<umask, TOKEN_FILE_mode, providerVars, flowVars, socketVars, toolVars>>

\* main, lines 168-176: exchange_code_for_tokens posts the code and returns
\* the token data of a 200 response and None otherwise; main returns 1 on
\* None and calls save_tokens otherwise.
exchange_code_for_tokens(response) ==
    /\ pc.at = "exchange"
    /\ pc' = IF response = None
             THEN [pc EXCEPT !.at = "returned", !.exchanged = TRUE,
                             !.status = Some(1)]
             ELSE [pc EXCEPT !.at = "open", !.exchanged = TRUE,
                             !.token_data = response]
    /\ UNCHANGED <<umask, TOKEN_FILE_mode, providerVars, flowVars, socketVars, toolVars>>

\* save_tokens, lines 82-86
tokens_of(token_data) ==
    [access_token |-> token_data.access_token,
     refresh_token |-> IF token_data.refresh_token = None THEN ""
                       ELSE The(token_data.refresh_token),
     updated_at |-> Timestamp]

\* save_tokens, line 90: open(TOKEN_FILE, "w") creates the file with the
\* default mode less the umask when there is none, keeps the mode of the file
\* that is there, and empties it.
save_tokens_open ==
    /\ pc.at = "open"
    /\ TOKEN_FILE_mode' = IF TOKEN_FILE_mode = None
                          THEN Some(AndNot(FILE_CREATE_MODE, umask))
                          ELSE TOKEN_FILE_mode
    /\ tokens_json' = Truncated
    /\ pc' = [pc EXCEPT !.at = "dump"]
    /\ UNCHANGED <<umask, now, ticks, rng, _clients, _tokens, _auth_codes,
                   _whoop_tokens, CLIENTS_FILE, TOKENS_FILE, AUTH_CODES_FILE,
                   held, authorized, issued, revoked, ret, disk,
                   flowVars, socketVars, toolVars>>

\* save_tokens, line 91 and the end of the with block
save_tokens_dump ==
    /\ pc.at = "dump"
    /\ tokens_json' = Some(tokens_of(The(pc.token_data)))
    /\ pc' = [pc EXCEPT !.at = "chmod"]
    /\ UNCHANGED <<umask, TOKEN_FILE_mode, now, ticks, rng, _clients, _tokens,
                   _auth_codes, _whoop_tokens, CLIENTS_FILE, TOKENS_FILE,
                   AUTH_CODES_FILE, held, authorized, issued, revoked, ret,
                   disk, flowVars, socketVars, toolVars>>

\* os.chmod(TOKEN_FILE, mode)
chmod(mode) == Some(mode)

\* save_tokens, lines 94-95, and the rest of main, which returns 0
save_tokens_chmod ==
    /\ pc.at = "chmod"
    /\ TOKEN_FILE_mode' = chmod(OWNER_READ_WRITE)
    /\ pc' = [pc EXCEPT !.at = "returned", !.status = Some(0)]
    /\ UNCHANGED <<umask, providerVars, flowVars, socketVars, toolVars>>

\* The script is run by a user under some umask, with config/tokens.json
\* absent, or left by an earlier run of the script.
InitScript ==
    /\ now = 0
    /\ ticks = 0
    /\ rng = [p \in Purposes |-> 0]
    /\ \E exists \in BOOLEAN :
          IF exists
          THEN /\ tokens_json \in { Some(tokens_of(t)) : t \in TokenData }
               /\ TOKEN_FILE_mode = Some(OWNER_READ_WRITE)
          ELSE /\ tokens_json = None
               /\ TOKEN_FILE_mode = None
    /\ CLIENTS_FILE = None
    /\ TOKENS_FILE = None
    /\ AUTH_CODES_FILE = None
    /\ _clients = [i \in Inst |-> EmptyDict]
    /\ _tokens = [i \in Inst |-> EmptyDict]
    /\ _auth_codes = [i \in Inst |-> EmptyDict]
    /\ _whoop_tokens = [i \in Inst |-> EmptyDict]
    /\ held = [i \in Inst |-> {}]
    /\ authorized = {}
    /\ issued = {}
    /\ revoked = {}
    /\ ret = NoCall
    /\ disk = "ok"
    /\ seen = {}
    /\ connected = FALSE
    /\ buffer = <<>>
    /\ sent = <<>>
    /\ reads = 0
    /\ whoop_client = None
    /\ upstream_calls = 0
    /\ tool_ret = NoCall
    /\ pc = NotRun
    /\ umask \in Umasks

NextScript ==
    \/ \E callback_url \in CallbackUrls : \E answer \in Answers :
          main(callback_url, answer)
    \/ \E response \in TokenResponses : exchange_code_for_tokens(response)
    \/ save_tokens_open
    \/ save_tokens_dump
    \/ save_tokens_chmod

SpecScript == InitScript /\ [][NextScript]_vars

\* ========================================================= the SSE server
\* src/src/whoop_mcp_sse_server.py: the routes of main, as an OAuth client and
\* its user's browser meet them. The routes made by create_auth_routes call
\* the provider; /callback is handle_callback.

\* The authorization code the vendor issues: its first ten characters and
\* the rest.
WhoopCodes == { [head |-> "Wh00pC0de1", tail |-> "xyz"] }
\* The query of a request to /callback: no code, or the vendor's code, with
\* or without the state and scope that authorize put in the vendor URL.
CallbackQueries ==
    { [code |-> c, state |-> s, scope |-> sc]
      : c \in { None } \cup { Some(w) : w \in WhoopCodes },
        s \in { None, Some("client-state") },
        sc \in { None, Some("read:recovery read:workout read:profile") } }

\* handle_callback, lines 45-77
handle_callback(request) ==
    LET code == request.code
        state == request.state
        scope == IF request.scope = None THEN "" ELSE The(request.scope)
        response ==
            IF code = None
            THEN [status_code |-> 400,
                  body |-> [error |-> "missing_code",
                            error_description |-> "Authorization code not provided"]]
            ELSE [status_code |-> 200,
                  body |-> [status |-> "success",
                            message |-> "Authorization code received successfully",
                            code_received |-> The(code).head \o "...",
                            state |-> state, scope |-> scope]]
    IN /\ seen' = seen \cup { [request |-> request, response |-> response] }
       /\ UNCHANGED <<providerVars, socketVars, toolVars, scriptVars>>

\* The user authorises at the vendor only after /authorize has sent the
\* browser there; the vendor then sends the browser to /callback.
VendorRedirects(request) ==
    /\ authorized # {}
    /\ handle_callback(request)

\* The code strings the client can send to /token: every string of a request
\* its browser made or of a response it received, and one it makes up.
KnownCodes ==
    { The(e.request.code).head \o The(e.request.code).tail
        : e \in { x \in seen : x.request.code # None } }
    \cup { e.response.body.code_received
             : e \in { x \in seen : x.response.status_code = 200 } }
    \cup { "never-issued" }
\* The access tokens the client can send to /sse: every one a token response
\* returned, and one it makes up.
KnownTokens ==
    { g.response.access_token : g \in issued } \cup { "never-issued" }

\* POST /token with grant_type=authorization_code: the route loads the code,
\* answers invalid_grant when there is none, and exchanges it otherwise.
token_endpoint(i, client, code) ==
    LET loaded == DictGet(_auth_codes[i], code)
    IN IF loaded = None \/ CodeExpired(The(loaded), now)
       THEN load_authorization_code(i, client, code)
       ELSE exchange_authorization_code(i, client, The(loaded))

\* line 110: required_scopes of the protected /sse route
REQUIRED_SCOPES == { "read:recovery" }
\* GET /sse with a bearer token: the token verifier loads the token; the
\* route is served when the token is found and has the required scopes.
sse_endpoint(i, token) == load_access_token(i, token)
Accepted ==
    /\ ret.op = "load_access_token"
    /\ ret.result # None
    /\ REQUIRED_SCOPES \subseteq
          { The(ret.result).scopes[n] : n \in DOMAIN The(ret.result).scopes }

Register == \E client_info \in ClientInfoInputs : register_client("A", client_info)
Authorize ==
    \E client \in Clients("A") : \E params \in ParamsInputs(client) :
       authorize("A", client, params)
Callback == \E request \in CallbackQueries : VendorRedirects(request)
Token ==
    \E client \in Clients("A") : \E code \in KnownCodes :
       token_endpoint("A", client, code)
Sse == \E token \in KnownTokens : sse_endpoint("A", token)

NextFlow ==
    \/ Register
    \/ Authorize
    \/ Callback
    \/ Token
    \/ Sse

SpecFlow == Init /\ [][NextFlow]_vars
\* The client and the browser go on with the flow: no request that can be
\* made is put off for ever.
SpecFlowFair ==
    /\ SpecFlow
    /\ WF_vars(Register) /\ WF_vars(Authorize) /\ WF_vars(Callback)
    /\ WF_vars(Token) /\ WF_vars(Sse)

\* ================================================================ claims
\* Everything but the outcome of the last call.
OtherThanRet == <<now, ticks, rng, _clients, _tokens, _auth_codes,
                  _whoop_tokens, CLIENTS_FILE, TOKENS_FILE, AUTH_CODES_FILE,
                  tokens_json, held, authorized, issued, revoked, disk, otherPrograms>>
\* d2 is d1 without the key k, every other entry as it was.
Without(d1, k, d2) ==
    /\ DOMAIN d2 = DOMAIN d1 \ {k}
    /\ \A x \in DOMAIN d2 : d2[x] = d1[x]
\* d2 is d1 with the one new key k, every other entry as it was.
WithNew(d1, k, d2) ==
    /\ k \notin DOMAIN d1
    /\ DOMAIN d2 = DOMAIN d1 \cup {k}
    /\ \A x \in DOMAIN d1 : d2[x] = d1[x]
\* The grants made in exchange for an authorization code.
CodeGrants == { g \in issued : g.code # None }

\* C1: at most one access token is ever issued for an authorization code, and
\* a load_authorization_code of a code that has been exchanged returns none.
C1_AtMostOneTokenPerCode ==
    /\ \A g, h \in CodeGrants :
          The(g.code).code = The(h.code).code
            => g.access_token.token = h.access_token.token
    /\ (ret.op = "load_authorization_code"
          /\ \E g \in CodeGrants : The(g.code).code = ret.authorization_code)
         => ret.result = None

\* C2: load_access_token of a stored token, called later than the token's
\* expires_at, returns none and removes exactly that token from the map and
\* from the token file; called at or before expires_at it returns the token
\* and changes nothing.
C2_LoadAccessTokenExpiry ==
    [][\A token \in AccessStrings("A") :
         (token \in DOMAIN _tokens["A"] /\ load_access_token("A", token)) =>
            LET stored == _tokens["A"][token]
            IN IF now > The(stored.expires_at) * Res
               THEN /\ ret'.result = None
                    /\ Without(_tokens["A"], token, _tokens'["A"])
                    /\ TOKENS_FILE # None /\ TOKENS_FILE' # None
                    /\ token \in DOMAIN The(TOKENS_FILE)
                    /\ Without(The(TOKENS_FILE), token, The(TOKENS_FILE'))
               ELSE /\ ret'.result = Some(stored)
                    /\ UNCHANGED OtherThanRet]_vars
\* A load has purged an expired token and left another, unexpired one in place.
C2_Witness ==
    /\ ret.op = "load_access_token" /\ ret.result = None
    /\ \E g \in issued :
          /\ g.access_token.token = ret.token
          /\ now > The(g.access_token.expires_at) * Res
          /\ ret.token \notin DOMAIN _tokens["A"]
    /\ \E t \in DOMAIN _tokens["A"] :
          now <= The(_tokens["A"][t].expires_at) * Res

\* C3: register_client of a client with no redirect URI fails with
\* invalid_redirect_uri, assigns no id or secret and leaves the client map and
\* file as they were; with a redirect URI it stores exactly one new client
\* under a new id.
C3_RegisterClient ==
    [][\A client_info \in ClientInfoInputs :
         register_client("A", client_info) =>
            IF client_info.redirect_uris = None
               \/ Len(The(client_info.redirect_uris)) = 0
            THEN /\ ret'.raised = Some("invalid_redirect_uri")
                 /\ ret'.client_info.client_id = None
                 /\ ret'.client_info.client_secret = None
                 /\ UNCHANGED <<_clients, CLIENTS_FILE>>
            ELSE /\ ret'.raised = None
                 /\ ret'.client_info.client_id # None
                 /\ LET cid == The(ret'.client_info.client_id)
                    IN /\ WithNew(_clients["A"], cid, _clients'["A"])
                       /\ CLIENTS_FILE = None \/ cid \notin DOMAIN The(CLIENTS_FILE)
                       /\ _clients'["A"][cid].redirect_uris
                             = client_info.redirect_uris
                       /\ DOMAIN The(CLIENTS_FILE') = DOMAIN _clients'["A"]]_vars
\* A registration without redirect URI has failed while a client is registered.
C3_Witness ==
    /\ ret.op = "register_client"
    /\ ret.raised = Some("invalid_redirect_uri")
    /\ ret.client_info.redirect_uris = Some(<<>>)
    /\ DOMAIN _clients["A"] # {}

\* C4 as stated: after authorize and exchange_authorization_code, the stored
\* access token has the scopes passed to authorize (the empty list when none
\* were) and the scope string of the response is their space-joined form.
RECURSIVE SpaceJoined(_)
SpaceJoined(l) ==
    IF Len(l) = 0 THEN ""
    ELSE IF Len(l) = 1 THEN l[1]
    ELSE SpaceJoined(SubSeq(l, 1, Len(l) - 1)) \o " " \o l[Len(l)]
RequestedScopes(a) == IF a.scopes = None THEN <<>> ELSE The(a.scopes)
ScopesCarried(g, a) ==
    /\ g.access_token.scopes = RequestedScopes(a)
    /\ g.access_token.token \in DOMAIN _tokens["A"]
         => _tokens["A"][g.access_token.token].scopes = RequestedScopes(a)
C4_ScopeRoundTripAsStated ==
    \A g \in CodeGrants : \A a \in authorized :
        a.code = The(g.code).code =>
           /\ ScopesCarried(g, a)
           /\ g.response.scope = Some(SpaceJoined(RequestedScopes(a)))
\* C4, amended: the same, but the response carries the space-joined scopes
\* only when the list is not empty, and no scope at all when it is empty.
C4_ScopeRoundTrip ==
    \A g \in CodeGrants : \A a \in authorized :
        a.code = The(g.code).code =>
           /\ ScopesCarried(g, a)
           /\ g.response.scope =
                 IF Len(RequestedScopes(a)) = 0 THEN None
                 ELSE Some(SpaceJoined(RequestedScopes(a)))
\* A code asked for with two scopes has been exchanged.
C4_Witness ==
    \E g \in CodeGrants : \E a \in authorized :
        /\ a.code = The(g.code).code
        /\ a.scopes = Some(<<"read:recovery", "read:workout">>)
        /\ g.response.scope = Some("read:recovery read:workout")
        /\ g.access_token.token \in DOMAIN _tokens["A"]

\* C5: no access token is issued in exchange for a code later than the code's
\* expires_at, and a load_authorization_code later than that returns none and
\* deletes the code.
C5_CodesTimeBounded ==
    [][\A client \in Clients("A") :
         /\ \A code \in held["A"] :
               (exchange_authorization_code("A", client, code)
                  /\ now > code.expires_at) => issued' = issued
         /\ \A c \in DOMAIN _auth_codes["A"] :
               (load_authorization_code("A", client, c)
                  /\ now > _auth_codes["A"][c].expires_at)
                 => /\ ret'.result = None
                    /\ c \notin DOMAIN _auth_codes'["A"]
                    /\ c \notin DOMAIN The(AUTH_CODES_FILE')]_vars

\* C6: an access token that load_access_token has purged or revoke_token has
\* removed is never in the token map again, and load_access_token returns
\* none for it.
C6_RemovedStaysRemoved ==
    [][\A g \in issued :
         LET t == g.access_token.token
         IN t \notin DOMAIN _tokens["A"] =>
               /\ t \notin DOMAIN _tokens'["A"]
               /\ load_access_token("A", t) => ret'.result = None]_vars
\* A load of a token that was revoked before its expiry has returned none.
C6_Witness ==
    /\ ret.op = "load_access_token" /\ ret.result = None
    /\ \E g \in issued :
          /\ g.access_token.token = ret.token
          /\ ret.token \notin DOMAIN _tokens["A"]
          /\ now <= The(g.access_token.expires_at) * Res

\* C7: every access token in the store, and every token ever issued, is bound
\* to a client id that is in the client map with at least one redirect URI.
RegisteredWithRedirectUri(client_id) ==
    /\ client_id \in DOMAIN _clients["A"]
    /\ _clients["A"][client_id].redirect_uris # None
    /\ Len(The(_clients["A"][client_id].redirect_uris)) >= 1
C8_RefreshExchangeUnconditional ==
    [][\A client \in Clients("A") : \A r \in RefreshTokenInputs :
         \A scopes \in ScopeListInputs :
            exchange_refresh_token("A", client, r, scopes) =>
               /\ ret'.raised = None /\ ret'.result # None
               /\ The(ret'.result).refresh_token = None
               /\ LET t == The(ret'.result).access_token
                  IN /\ WithNew(_tokens["A"], t, _tokens'["A"])
                     /\ _tokens'["A"][t].client_id = The(client.client_id)
                     /\ _tokens'["A"][t].scopes = scopes
                     /\ _tokens'["A"][t].expires_at
                           = Some((now \div Res) + 3600)
                     /\ t \in DOMAIN The(TOKENS_FILE')]_vars
\* A refresh exchange has stored a token although no refresh token was ever
\* issued.
C8_Witness ==
    /\ ret.op = "exchange_refresh_token" /\ ret.result # None
    /\ RefreshTokens = {}
    /\ The(ret.result).access_token \in DOMAIN _tokens["A"]

\* C9: load_refresh_token returns none for every client and refresh token
\* string, the one a code exchange has just returned included, and changes
\* no state.
C9_LoadRefreshTokenNone ==
    [][\A client \in Clients("A") : \A r \in RefreshStrings :
         load_refresh_token("A", client, r) =>
            /\ ret'.result = None
            /\ UNCHANGED OtherThanRet]_vars
\* A load of a refresh token that a code exchange returned has returned none.
C9_Witness ==
    /\ ret.op = "load_refresh_token" /\ ret.result = None
    /\ \E g \in CodeGrants : g.response.refresh_token = Some(ret.refresh_token)

\* C10: with two instances on one storage directory, every write of the token
\* file replaces its whole content by the in-memory map of the instance that
\* writes, whatever the other instance has written since; so a save by one
\* instance can erase a token the other has issued (the witness).
C10_WholeFileRewritten ==
    [][TOKENS_FILE' # TOKENS_FILE =>
         \E i \in Inst :
            /\ _tokens'[i] # _tokens[i]
            /\ TOKENS_FILE' # None
            /\ DOMAIN The(TOKENS_FILE') = DOMAIN _tokens'[i]
            /\ \A t \in DOMAIN _tokens'[i] :
                  The(TOKENS_FILE')[t] = AccessTokenDump(_tokens'[i][t])]_vars
\* An access token that one instance issued and still holds, unexpired and
\* never revoked, is no longer in the token file, which is the other
\* instance's map.
C10_Witness ==
    \E g \in issued :
       LET t == g.access_token.token
       IN /\ t \notin revoked
          /\ now <= The(g.access_token.expires_at) * Res
          /\ t \in DOMAIN _tokens[g.inst]
          /\ TOKENS_FILE # None
          /\ t \notin DOMAIN The(TOKENS_FILE)
          /\ \E j \in Inst \ {g.inst} :
                /\ DOMAIN The(TOKENS_FILE) = DOMAIN _tokens[j]
                /\ DOMAIN _tokens[j] # {}

\* The three store files.
StoreFiles == <<CLIENTS_FILE, TOKENS_FILE, AUTH_CODES_FILE>>
\* What a provider operation does to the maps and returns, whatever becomes of
\* its write: a registration is in the client map, a generated code in the
\* code map, an issued token in the token map and in the response, the
\* exchanged code and a revoked token out of their maps.
CompletesInMemory ==
    /\ (ret'.op = "register_client" /\ ret'.raised = None) =>
          /\ The(ret'.client_info.client_id) \in DOMAIN _clients'["A"]
          /\ _clients'["A"] # _clients["A"]
    /\ ret'.op = "authorize" =>
          /\ authorized' # authorized
          /\ \A a \in authorized' \ authorized : a.code \in DOMAIN _auth_codes'["A"]
    /\ (ret'.op = "exchange_authorization_code" /\ ret'.raised = None) =>
          /\ issued' # issued
          /\ \A g \in issued' \ issued :
                /\ g.access_token.token \in DOMAIN _tokens'["A"]
                /\ The(g.code).code \notin DOMAIN _auth_codes'["A"]
                /\ ret'.result = Some(g.response)
    /\ revoked' # revoked =>
          \A t \in revoked' \ revoked : t \notin DOMAIN _tokens'["A"]

\* C11: while writes to the storage directory fail, every provider operation
\* still completes with its result and its change of the in-memory map, and
\* leaves each store file with the content it had before the operation.
C11_WriteFailureOnlyLogged ==
    [][(disk # "ok" /\ disk' = disk /\ ret'.op # "__init__") =>
          /\ CompletesInMemory
          /\ StoreFiles' = StoreFiles]_vars

\* The response a turn of handle_client has just sent, and its error code
\* (0 when it carries a result).
LastSent == sent'[Len(sent')]
ErrorCode(response) ==
    IF response.error = None THEN 0 ELSE The(response.error).code
SendsOne == Len(sent') = Len(sent) + 1 /\ SubSeq(sent', 1, Len(sent)) = sent

\* C12: when the text received on a connection is not a JSON document, the
\* handler sends one error response with code -32700 and id null, and the
\* connection stays open with an empty buffer for the messages that follow.
C12_ParseErrorKeepsConnection ==
    [][\A data \in Chunks :
          (/\ Recv(data)
           /\ ~RaisesUnicodeDecodeError(buffer \o data)
           /\ RaisesJSONDecodeError(buffer \o data)) =>
             /\ SendsOne
             /\ ErrorCode(LastSent) = -32700
             /\ LastSent.id = None
             /\ connected'
             /\ buffer' = <<>>]_vars

\* What the request that was received says, read off the parsed document.
NamesMethod(message) ==
    /\ "method" \in DOMAIN message.d
    /\ Truthy(message.d["method"])
IsVersion2(message) ==
    /\ "jsonrpc" \in DOMAIN message.d
    /\ message.d["jsonrpc"] = JStr("2.0")
MethodIn(message, names) ==
    /\ message.d["method"].t = "str"
    /\ message.d["method"].v \in names
ParamsUsable(message) ==
    "params" \in DOMAIN message.d => message.d["params"].t = "object"

\* C13 as stated: every JSON document gets a response; an object that is not
\* version 2.0 or names no method gets -32600, a method other than
\* initialize, echo and shutdown gets -32601, and initialize, echo and
\* shutdown get a result and no error.
C13_ErrorCodesAsStated ==
    [][\A data \in Chunks :
          (/\ Recv(data)
           /\ ~RaisesUnicodeDecodeError(buffer \o data)
           /\ ~RaisesJSONDecodeError(buffer \o data)) =>
             LET message == json_loads(buffer \o data)
             IN /\ SendsOne
                /\ message.t = "object" =>
                      IF ~IsVersion2(message) \/ ~NamesMethod(message)
                      THEN ErrorCode(LastSent) = -32600
                      ELSE IF ~MethodIn(message, {"initialize", "echo", "shutdown"})
                      THEN ErrorCode(LastSent) = -32601
                      ELSE LastSent.error = None /\ LastSent.result # None]_vars

\* C13, amended: the same, but initialize and echo get a result only when the
\* request has no params or an object as params, and -32603 otherwise, as
\* does a JSON document that is not an object.
C13_ErrorCodes ==
    [][\A data \in Chunks :
          (/\ Recv(data)
           /\ ~RaisesUnicodeDecodeError(buffer \o data)
           /\ ~RaisesJSONDecodeError(buffer \o data)) =>
             LET message == json_loads(buffer \o data)
             IN /\ SendsOne
                /\ IF message.t # "object"
                   THEN ErrorCode(LastSent) = -32603
                   ELSE IF ~IsVersion2(message) \/ ~NamesMethod(message)
                   THEN ErrorCode(LastSent) = -32600
                   ELSE IF ~MethodIn(message, {"initialize", "echo", "shutdown"})
                   THEN ErrorCode(LastSent) = -32601
                   ELSE IF MethodIn(message, {"initialize", "echo"})
                           /\ ~ParamsUsable(message)
                   THEN ErrorCode(LastSent) = -32603
                   ELSE LastSent.error = None /\ LastSent.result # None]_vars
\* One connection has been answered -32601, -32603 and with a result.
C13_Witness ==
    /\ Len(sent) = 3
    /\ { ErrorCode(sent[k]) : k \in 1..3 } = {-32601, -32603, 0}
    /\ \E k \in 1..3 : sent[k].result # None /\ sent[k].id # None

\* C20: a turn of handle_client that has received only the beginning of a
\* request sends nothing and keeps what it received in the buffer; the turn
\* that receives the end of the request sends exactly one response.
IsIncomplete(text) ==
    \E r \in Requests : Len(text) < Len(r) /\ SubSeq(r, 1, Len(text)) = text
C20_SplitMessageAccumulated ==
    [][\A data \in Chunks :
          Recv(data) =>
             LET received == buffer \o data
             IN IF IsIncomplete(received)
                THEN sent' = sent /\ buffer' = received
                ELSE received \in Requests => SendsOne]_vars

\* The data tools of the dispatcher, and those among them that return a list.
ListTools == { "get_cycles", "get_recoveries", "get_sleeps", "get_workouts",
               "get_strains", "get_team_members" }
DataTools ==
    ListTools \cup
    { "get_latest_cycle", "get_average_strain", "get_cycle_by_id",
      "get_recovery_by_id", "get_sleep_by_id", "get_workout_by_id",
      "get_strain_by_id", "get_user_body_measurements", "get_latest_recovery" }
\* {error: message}, inside a one-element list for a list-returning tool
ErrorValueOf(tool, message) ==
    [type |-> IF tool \in ListTools THEN "list" ELSE "dict",
     items |-> <<[error |-> message]>>]

\* C14: every call of a data tool returns a value of the tool's type; when
\* the upstream client is not initialised the value is the error 'Not
\* authenticated with Whoop' and upstream is not called, and when the
\* upstream call raises the value is the error with the exception's message.
C14_ToolsReturnErrors ==
    [][tool_ret'.op \in DataTools =>
          /\ tool_ret'.result.type = (IF tool_ret'.op \in ListTools THEN "list" ELSE "dict")
          /\ Len(tool_ret'.result.items) >= 1
          /\ whoop_client = None =>
                /\ tool_ret'.result =
                       ErrorValueOf(tool_ret'.op, "Not authenticated with Whoop")
                /\ tool_ret'.upstream = None
                /\ upstream_calls' = upstream_calls
          /\ (tool_ret'.upstream # None /\ The(tool_ret'.upstream).raises # None) =>
                tool_ret'.result =
                   ErrorValueOf(tool_ret'.op, The(The(tool_ret'.upstream).raises))]_vars
\* A list-returning tool has returned the error of an upstream call that
\* raised.
C14_Witness ==
    /\ whoop_client # None
    /\ tool_ret.op \in ListTools
    /\ tool_ret.upstream # None
    /\ The(tool_ret.upstream).raises # None
    /\ tool_ret.result.items = <<[error |-> "401 Client Error: Unauthorized"]>>
    /\ upstream_calls = MaxCalls

\* A cycle has a strain value when its score has a strain, whatever the value.
HasStrainValue(cycle) ==
    cycle.score # None /\ The(cycle.score).strain # None
RECURSIVE StrainTotal(_)
StrainTotal(cycles) ==
    IF Len(cycles) = 0 THEN 0
    ELSE (IF HasStrainValue(cycles[1]) THEN The(The(cycles[1].score).strain) ELSE 0)
         + StrainTotal(Tail(cycles))
StrainCount(cycles) ==
    Cardinality({ n \in DOMAIN cycles : HasStrainValue(cycles[n]) })

\* C15: when some fetched cycle has a strain value, get_average_strain returns
\* as samples the number of cycles that have one, a strain of 0 included, and
\* as average_strain the sum of their strains divided by that number.
C15_AverageStrainIsMean ==
    [][(/\ tool_ret'.op \in {"get_average_strain", "GET /strain/average"}
        /\ tool_ret'.upstream # None
        /\ The(tool_ret'.upstream).raises = None
        /\ StrainCount(The(tool_ret'.upstream).value) > 0) =>
          LET cycles == The(tool_ret'.upstream).value
              returned == tool_ret'.result.items[1]
          IN /\ "samples" \in DOMAIN returned
             /\ returned.samples = StrainCount(cycles)
             /\ returned.average_strain.num * StrainCount(cycles)
                   = StrainTotal(cycles) * returned.average_strain.den]_vars

\* C16: no step of the provider changes or removes a registration: whatever
\* is stored under a client id (id, secret, redirect URIs, issuance
\* timestamp) is stored unchanged under that id after the step.
C16_ClientImmutable ==
    [][\A client_id \in DOMAIN _clients["A"] :
          /\ client_id \in DOMAIN _clients'["A"]
          /\ _clients'["A"][client_id] = _clients["A"][client_id]]_vars
\* A second client has been registered, and a token issued and revoked, with
\* the first registration in place.
C16_Witness ==
    /\ DOMAIN _clients["A"] = {"client_id-0", "client_id-1"}
    /\ _clients["A"]["client_id-0"] = EarlierClient
    /\ issued # {}
    /\ revoked # {}
    /\ ret.op = "__init__"

\* C19: for every exchange of an authorization code, the refresh token built
\* expires 86400 seconds, and the access token 3600 seconds, after the second
\* in which they were issued.
C19_RefreshExpiresAfterADay ==
    \A g \in CodeGrants :
       /\ The(The(g.refresh_token).expires_at) = (g.time \div Res) + 86400
       /\ The(g.access_token.expires_at) = (g.time \div Res) + 3600

\* The vendor token file holds tokens that save_tokens wrote.
HoldsSavedTokens ==
    /\ tokens_json # None
    /\ tokens_json # Truncated
    /\ "updated_at" \in DOMAIN The(tokens_json)
\* C18: whenever the vendor token file holds tokens written by save_tokens,
\* between its write and its return included, the file's permission bits are
\* 0600.
C18_TokenFileOwnerOnly ==
    HoldsSavedTokens => TOKEN_FILE_mode = Some(384)

\* The browser of the user has been to /callback with the vendor's code.
CallbackReached ==
    \E e \in seen : e.response.status_code = 200
\* C17: once a registered client has called the authorization endpoint and
\* its user has authorised upstream and reached /callback, the client comes
\* to present an access token that the protected SSE endpoint accepts.
C17_FlowCompletes == (authorized # {} /\ CallbackReached) ~> Accepted

\* The result of a shutdown request.
ShuttingDown == Some([kind |-> "status", text |-> "shutting down"])
\* C21: a turn of handle_client that answers a request with the result
\* 'shutting down' closes the connection, and a turn that receives a request
\* whose method is not shutdown leaves it open.
C21_ShutdownCloses ==
    [][\A data \in Chunks :
          (/\ Recv(data)
           /\ ~RaisesUnicodeDecodeError(buffer \o data)
           /\ ~RaisesJSONDecodeError(buffer \o data)
           /\ json_loads(buffer \o data).t = "object") =>
             LET message == json_loads(buffer \o data)
             IN /\ LastSent.result = ShuttingDown => ~connected'
                /\ ~("method" \in DOMAIN message.d
                       /\ MethodIn(message, {"shutdown"})) => connected']_vars

\* C29: a turn of handle_client that receives a JSON object sends exactly one
\* response, and the response, a result or an error, carries the id of the
\* request.
C29_ResponseEchoesId ==
    [][\A data \in Chunks :
          (/\ Recv(data)
           /\ ~RaisesUnicodeDecodeError(buffer \o data)
           /\ ~RaisesJSONDecodeError(buffer \o data)
           /\ json_loads(buffer \o data).t = "object") =>
             /\ SendsOne
             /\ LastSent.id = Get(json_loads(buffer \o data), "id")]_vars

\* The endpoints of the HTTP server that read cycles, and the status of a
\* response: the status of the HTTPException, or 200.
CycleEndpoints == { "GET /cycles/latest", "GET /strain/average", "GET /cycles" }
StatusCode(result) ==
    IF result.type = "dict" /\ "status_code" \in DOMAIN result.items[1]
    THEN result.items[1].status_code
    ELSE 200
\* C22: an endpoint that reads cycles responds 401 when no upstream client is
\* initialised, 404 when upstream returns no cycle (for /strain/average also
\* when no cycle has strain data), and 500 only when the upstream call raises.
C22_HttpStatusCodes ==
    [][tool_ret'.op \in CycleEndpoints =>
          LET status == StatusCode(tool_ret'.result)
              upstream == tool_ret'.upstream
              answered == upstream # None /\ The(upstream).raises = None
          IN /\ whoop_client = None => status = 401
             /\ (answered /\ Len(The(upstream).value) = 0) => status = 404
             /\ (/\ answered
                 /\ tool_ret'.op = "GET /strain/average"
                 /\ Len(ExtractStrains(The(upstream).value)) = 0) => status = 404
             /\ status = 500 =>
                   upstream # None /\ The(upstream).raises # None]_vars

\* C23: revoke_token of an access token that is stored removes exactly that
\* token from the token map and from the token file, and leaves every other
\* token, every code, every client and every session as it was; revoke_token
\* of an access token that is not stored (never stored, or revoked before)
\* and of a refresh token changes nothing.
C23_RevokeRemovesExactlyOne ==
    [][\A token \in RevokeInputs("A") :
          revoke_token("A", token) =>
             IF token.type = "AccessToken" /\ token.token \in DOMAIN _tokens["A"]
             THEN /\ Without(_tokens["A"], token.token, _tokens'["A"])
                  /\ TOKENS_FILE # None /\ TOKENS_FILE' # None
                  /\ token.token \in DOMAIN The(TOKENS_FILE)
                  /\ Without(The(TOKENS_FILE), token.token, The(TOKENS_FILE'))
                  /\ UNCHANGED <<_clients, _auth_codes, _whoop_tokens,
                                 CLIENTS_FILE, AUTH_CODES_FILE, tokens_json>>
             ELSE UNCHANGED OtherThanRet]_vars
\* A token has been revoked, and revoked once more, with another token and a
\* session left in place.
C23_Witness ==
    /\ ret.op = "revoke_token"
    /\ revoked # {}
    /\ DOMAIN _tokens["A"] # {}
    /\ TOKENS_FILE # None
    /\ DOMAIN The(TOKENS_FILE) = DOMAIN _tokens["A"]
    /\ revoked \cap DOMAIN _tokens["A"] = {}
    /\ DOMAIN _whoop_tokens["A"] # {}

\* The sessions of the provider, and those a step has added.
Sessions == _whoop_tokens["A"]
NewSessions == DOMAIN _whoop_tokens'["A"] \ DOMAIN Sessions
\* C24: a step of exchange_authorization_code or create_session_for_token
\* adds at most one session, under an id that was not in use, equal to the
\* default_session entry as it was before the step; no other operation adds
\* one; and no operation of the running provider changes or removes the
\* default_session entry or a session that exists. (The constructor builds
\* the map anew from the vendor file: it keeps the default_session entry.)
C24_SessionsAreCopies ==
    [][/\ DEFAULT_SESSION \in DOMAIN Sessions =>
             /\ DEFAULT_SESSION \in DOMAIN _whoop_tokens'["A"]
             /\ _whoop_tokens'["A"][DEFAULT_SESSION] = Sessions[DEFAULT_SESSION]
       /\ ~Restart("A") =>
             /\ \A sid \in DOMAIN Sessions :
                   /\ sid \in DOMAIN _whoop_tokens'["A"]
                   /\ _whoop_tokens'["A"][sid] = Sessions[sid]
             /\ Cardinality(NewSessions) <= 1
             /\ \A sid \in NewSessions :
                   /\ ret'.op \in {"exchange_authorization_code",
                                   "create_session_for_token"}
                   /\ DEFAULT_SESSION \in DOMAIN Sessions
                   /\ _whoop_tokens'["A"][sid] = Sessions[DEFAULT_SESSION]]_vars
\* A code exchange and create_session_for_token have each added a session
\* beside the default one.
C24_Witness ==
    /\ ret.op = "create_session_for_token"
    /\ issued # {}
    /\ Cardinality(DOMAIN Sessions) = 3
    /\ \A sid \in DOMAIN Sessions : Sessions[sid] = Sessions[DEFAULT_SESSION]

\* C25: an exchange_authorization_code made while no default_session is
\* loaded raises invalid_grant, stores no access token and creates no
\* session, and leaves the code out of the code map and of the code file; a
\* code that is out of the map stays out, and load_authorization_code
\* returns none for it.
C25_FailedExchangeConsumesCode ==
    [][\A client \in Clients("A") :
          /\ \A code \in held["A"] :
                (/\ exchange_authorization_code("A", client, code)
                 /\ DEFAULT_SESSION \notin DOMAIN _whoop_tokens["A"]) =>
                    /\ ret'.raised = Some("invalid_grant")
                    /\ UNCHANGED <<_tokens, TOKENS_FILE, _whoop_tokens, issued>>
                    /\ code.code \notin DOMAIN _auth_codes'["A"]
                    /\ AUTH_CODES_FILE' # None
                    /\ code.code \notin DOMAIN The(AUTH_CODES_FILE')
          /\ \A c \in CodeStrings("A") \ DOMAIN _auth_codes["A"] :
                /\ c \notin DOMAIN _auth_codes'["A"]
                /\ load_authorization_code("A", client, c) => ret'.result = None]_vars
\* After an exchange that failed for want of a default session, a load of the
\* same code, not yet expired, has returned none.
C25_Witness ==
    /\ DEFAULT_SESSION \notin DOMAIN _whoop_tokens["A"]
    /\ rng["session"] >= 1
    /\ issued = {}
    /\ DOMAIN _tokens["A"] = {}
    /\ ret.op = "load_authorization_code" /\ ret.result = None
    /\ \E c \in held["A"] :
          /\ c.code = ret.authorization_code
          /\ now <= c.expires_at
          /\ AUTH_CODES_FILE # None
          /\ c.code \notin DOMAIN The(AUTH_CODES_FILE)

\* C26: load_authorization_code returns a code only to the client that
\* authorize issued it to, and the access token that
\* exchange_authorization_code issues for a code is bound to the client id
\* of the code.
C26_CodeBoundToClient ==
    [][\A client \in Clients("A") :
          /\ \A c \in CodeStrings("A") :
                (load_authorization_code("A", client, c) /\ ret'.result # None)
                   => The(ret'.result).client_id = The(client.client_id)
          /\ \A code \in held["A"] :
                exchange_authorization_code("A", client, code) =>
                   \A g \in issued' \ issued :
                      g.access_token.client_id = code.client_id]_vars

\* C27: a restart of the provider, which rebuilds the maps from the files,
\* brings back no authorization code that was exchanged or deleted before it
\* and no access token that was revoked or purged as expired before it.
C27_RemovalSurvivesRestart ==
    [][Restart("A") =>
          /\ \A a \in authorized :
                a.code \notin DOMAIN _auth_codes["A"]
                   => a.code \notin DOMAIN _auth_codes'["A"]
          /\ \A g \in issued :
                g.access_token.token \notin DOMAIN _tokens["A"]
                   => g.access_token.token \notin DOMAIN _tokens'["A"]]_vars
\* The provider has restarted after a code was exchanged, one token was
\* revoked and another was purged as expired; none of them is in a map.
C27_Witness ==
    /\ ret.op = "__init__"
    /\ DOMAIN _clients["A"] # {}
    /\ \E g \in CodeGrants : The(g.code).code \notin DOMAIN _auth_codes["A"]
    /\ \E g \in issued :
          /\ g.access_token.token \in revoked
          /\ g.access_token.token \notin DOMAIN _tokens["A"]
    /\ \E g \in issued :
          /\ g.access_token.token \notin revoked
          /\ now > The(g.access_token.expires_at) * Res
          /\ g.access_token.token \notin DOMAIN _tokens["A"]

\* A store file has exactly the entries of a map, as they are dumped: an
\* absent file has none.
Matches(file, dumped) ==
    IF file = None THEN DOMAIN dumped = {}
    ELSE /\ DOMAIN The(file) = DOMAIN dumped
         /\ \A k \in DOMAIN dumped : The(file)[k] = dumped[k]
ClientsMatch(file, m) == Matches(file, [k \in DOMAIN m |-> ClientDump(m[k])])
TokensMatch(file, m) == Matches(file, [k \in DOMAIN m |-> AccessTokenDump(m[k])])
AuthCodesMatch(file, m) == Matches(file, [k \in DOMAIN m |-> AuthCodeDump(m[k])])
FilesMatchMaps ==
    /\ ClientsMatch(CLIENTS_FILE, _clients["A"])
    /\ TokensMatch(TOKENS_FILE, _tokens["A"])
    /\ AuthCodesMatch(AUTH_CODES_FILE, _auth_codes["A"])
\* A step of a provider operation during which the storage directory takes
\* every write.
WritesSucceed == disk = "ok" /\ disk' = "ok"

\* C28 as stated: after every provider operation whose file writes all
\* succeeded, the client, token and code files have exactly the entries of
\* the client, token and code maps.
C28_FilesMatchMapsAsStated ==
    [][WritesSucceed => FilesMatchMaps']_vars
\* C28, amended: a provider operation whose file writes all succeed leaves
\* each file it has written with exactly the entries of its map, and leaves
\* all three files so when they were so before it.
C28_FilesMatchMaps ==
    [][WritesSucceed =>
          /\ CLIENTS_FILE' # CLIENTS_FILE =>
                ClientsMatch(CLIENTS_FILE', _clients'["A"])
          /\ TOKENS_FILE' # TOKENS_FILE =>
                TokensMatch(TOKENS_FILE', _tokens'["A"])
          /\ AUTH_CODES_FILE' # AUTH_CODES_FILE =>
                AuthCodesMatch(AUTH_CODES_FILE', _auth_codes'["A"])
          /\ FilesMatchMaps => FilesMatchMaps']_vars
\* A code exchange has completed on a directory that takes writes: the three
\* files match the maps, with a client and a token in them and the code gone.
C28_Witness ==
    /\ disk = "ok"
    /\ ret.op = "exchange_authorization_code" /\ ret.raised = None
    /\ FilesMatchMaps
    /\ CLIENTS_FILE # None /\ DOMAIN The(CLIENTS_FILE) # {}
    /\ TOKENS_FILE # None /\ DOMAIN The(TOKENS_FILE) # {}
    /\ AUTH_CODES_FILE # None /\ DOMAIN The(AUTH_CODES_FILE) = {}

\* What the claim requires of the pasted URL before the code is sent: it
\* carries the state of this run, or the user was warned of the mismatch and
\* answered y.
StateVerified ==
    \/ The(pc.url).state = Some(GeneratedState)
    \/ pc.answer \in { Some("y"), Some("Y") }
\* The pasted URL is empty, has an error parameter, or has no code.
Rejected ==
    LET url == The(pc.url)
    IN url.empty \/ NonBlank(url.error) # None \/ NonBlank(url.code) = None
\* The run has written the token file.
HasWritten == pc.at \in {"dump", "chmod"} \/ pc.status = Some(0)
\* C30: a run of the script sends the code to the token endpoint, and writes
\* the token file, only when the pasted URL carries the state generated for
\* the run or the user confirmed after the mismatch warning; on an empty URL,
\* an error parameter or a missing code the run returns 1 without sending
\* the code or writing the file.
C30_ExchangeOnlyWithVerifiedState ==
    pc.url # None =>
       /\ (pc.exchanged \/ HasWritten) => StateVerified
       /\ Rejected =>
             /\ pc.at = "returned" /\ pc.status = Some(1)
             /\ ~pc.exchanged /\ ~HasWritten

====
